---- MODULE Spec2Model ----
(***************************************************************************)
(* A model of mini-redis: the key/value store (kv_store.cpp), the command  *)
(* handlers (commands.cpp, tcp_server.cpp process_command), the binary     *)
(* snapshot and the append-only journal (aof_logger.cpp).                  *)
(*                                                                         *)
(* Byte strings are TLA+ strings; a map (std::unordered_map) is a function *)
(* whose DOMAIN is the set of keys present.                                *)
(***************************************************************************)
EXTENDS Integers, Sequences, FiniteSets, TLC

\* ------------------------------------------------------------------ bounds
\* KVStore::MAX_KEYS, scaled down from 10000 so that eviction happens.
MAX_KEYS == 2
\* One key more than the threshold, so that a write can exceed it.
NumKeys == MAX_KEYS + 1
\* The clock (time(nullptr)) starts here and advances at most MaxTicks seconds.
StartTime == 100
MaxTicks == 2

Keys == {"k" \o ToString(i) : i \in 1..NumKeys}
\* Values written by SET; the empty string is a legal value.
Values == {"", "a"}
\* Field and value written by HSET.
Fields == {"f"}
HashValues == {"w"}
\* Fields asked by HGET ("g" is never written).
ProbeFields == {"f", "g"}
\* The seconds argument of EXPIRE, as the client sends it: 0..MaxSeconds.
MaxSeconds == 2
SecondsArgs == {ToString(n) : n \in 0..MaxSeconds}

\* The largest signed 64-bit integer (2^63 - 1 in the code, scaled down so
\* that counters overflow).
INT64_MAX == 7

\* The replicas that may be attached to the server.
MaxReplicas == 2

\* The number of writes the connections' threads apply to the store in a run
\* of concurrent handlers.
MaxWrites == 3

\* The SET commands of a run in which the handlers are followed mutex by
\* mutex.
MaxSets == 1

\* The number of databases (16 in the code, scaled down).
NumDatabases == 2

\* The writes a client may make on one connection (model bound).
MaxSends == 2

VARIABLES
    databases,      \* detail::databases: the KVStore of each database index
    db_index,       \* ClientContext::db_index of the session
    now,            \* the wall clock read by time(nullptr), in seconds
    last_cmd,       \* the protocol::Command handled last (history)
    last_at,        \* the clock second at which it was handled (history)
    last_removed,   \* the keys present before it and absent after it (history)
    reply,          \* CommandResult::reply of the command handled last
    g_aof_logger,   \* TRUE when mini_redis::g_aof_logger is not null
    command_queue_, \* AOFLogger::command_queue_
    aof_file,       \* the journal file: the strings written to it, in order
    rdb_file,       \* the snapshot file mini_redis_dump.rdb, or NoFile
    saved,          \* the store as the last successful SAVE wrote it (history)
    g_replication_manager, \* TRUE when mini_redis::g_replication_manager is set
    replicas_,      \* ReplicationManager::replicas_, with what each was sent
    channels,       \* detail::channels: channel -> set of subscribed sockets
    ctx,            \* the ClientContext of each connection
    parser_buffer,  \* RespParser::buffer of each connection
    wire,           \* bytes each client has sent and the server has not read
    socket_state,   \* each connection's socket: "none", "open" or "closed"
    client_in,      \* the bytes handed to each connection's socket, in order
    write_buffer,   \* IOCPClientContext::write_buffer of each connection
    executed,       \* the replies of the frames executed, per connection (history)
    use_iocp,       \* Config::use_iocp: which listener main started
    operation,      \* IOCPClientContext::operation, or where its worker stands
    client_sent,    \* the writes each client has made, in order (history)
    running_,       \* AOFLogger::running_
    writer,         \* where AOFLogger::writer_thread_func stands, and its cmd
    stopper,        \* where the thread that called AOFLogger::stop stands,
                    \* and what had been enqueued when it called (history)
    queue_mutex_,   \* the holder of AOFLogger::queue_mutex_, or "free"
    thread,         \* where each connection's thread stands inside a handler
    applied,        \* the writes in the order the store applied them (history)
    mutexes         \* the holder of each other std::mutex, or "free"

\* The state of the connections and of publish/subscribe.
threadVars == <<running_, writer, stopper, queue_mutex_, thread, applied,
               mutexes>>

netVars == <<channels, ctx, parser_buffer, wire, socket_state, client_in,
             write_buffer, executed, use_iocp, operation, client_sent>>

vars == <<databases, db_index, now, last_cmd, last_at, last_removed, reply,
          g_aof_logger, command_queue_, aof_file, rdb_file, saved,
          g_replication_manager, replicas_, netVars, threadVars>>

storeVars == <<databases, db_index>>
aofVars == <<g_aof_logger, command_queue_, aof_file>>

\* ------------------------------------------------------------ map helpers
EmptyMap == <<>>

Erase(m, k) == [x \in (DOMAIN m) \ {k} |-> m[x]]

Put(m, k, v) == [x \in (DOMAIN m) \cup {k} |-> IF x = k THEN v ELSE m[x]]

RemoveKey(list, k) == SelectSeq(list, LAMBDA x : x # k)

\* ---------------------------------------------------------------- KVStore
\* Each method returns the store after the call in .s and its result in .ret.
\* A default-constructed KVStore.
EmptyStore ==
    [store_ |-> EmptyMap, hash_store_ |-> EmptyMap, expirations_ |-> EmptyMap,
     lru_order_ |-> <<>>, lru_map_ |-> {}]

\* Mutant: a key is taken as expired only after its expiration second.
check_and_remove_expired_late(s, key, t) ==
    IF key \in DOMAIN s.expirations_ /\ t > s.expirations_[key]
    THEN [store_       |-> Erase(s.store_, key),
          hash_store_  |-> Erase(s.hash_store_, key),
          expirations_ |-> Erase(s.expirations_, key),
          lru_order_   |-> IF key \in s.lru_map_
                           THEN RemoveKey(s.lru_order_, key)
                           ELSE s.lru_order_,
          lru_map_     |-> s.lru_map_ \ {key}]
    ELSE s

check_and_remove_expired(s, key, t) ==
    IF key \in DOMAIN s.expirations_ /\ t >= s.expirations_[key]
    THEN [store_       |-> Erase(s.store_, key),
          hash_store_  |-> Erase(s.hash_store_, key),
          expirations_ |-> Erase(s.expirations_, key),
          lru_order_   |-> IF key \in s.lru_map_
                           THEN RemoveKey(s.lru_order_, key)
                           ELSE s.lru_order_,
          lru_map_     |-> s.lru_map_ \ {key}]
    ELSE s

update_lru(s, key) ==
    [s EXCEPT !.lru_order_ = <<key>> \o (IF key \in s.lru_map_
                                         THEN RemoveKey(@, key) ELSE @),
              !.lru_map_ = @ \cup {key}]

size(s) == Cardinality(DOMAIN s.store_) + Cardinality(DOMAIN s.hash_store_)

\* Mutant: eviction takes the front of the recency list, the newest key.
evict_newest(s) ==
    IF size(s) > MAX_KEYS /\ s.lru_order_ # <<>>
    THEN LET newest_key == s.lru_order_[1]
         IN  [store_       |-> Erase(s.store_, newest_key),
              hash_store_  |-> Erase(s.hash_store_, newest_key),
              expirations_ |-> Erase(s.expirations_, newest_key),
              lru_map_     |-> s.lru_map_ \ {newest_key},
              lru_order_   |-> Tail(s.lru_order_)]
    ELSE s

RECURSIVE evict_if_needed(_)
evict_if_needed(s) ==
    IF size(s) > MAX_KEYS /\ s.lru_order_ # <<>>
    THEN LET oldest_key == s.lru_order_[Len(s.lru_order_)]
         IN  evict_if_needed(
               [store_       |-> Erase(s.store_, oldest_key),
                hash_store_  |-> Erase(s.hash_store_, oldest_key),
                expirations_ |-> Erase(s.expirations_, oldest_key),
                lru_map_     |-> s.lru_map_ \ {oldest_key},
                lru_order_   |-> SubSeq(s.lru_order_, 1, Len(s.lru_order_) - 1)])
    ELSE s

\* Mutant: SET forgets to drop a Hash held by the key.
set_keeps_hash(s, key, value, t) ==
    LET s1 == check_and_remove_expired(s, key, t)
        s2 == [s1 EXCEPT !.store_ = Put(@, key, value)]
    IN  [s |-> evict_if_needed(update_lru(s2, key)), ret |-> TRUE]

set(s, key, value, t) ==
    LET s1 == check_and_remove_expired(s, key, t)
        s2 == [s1 EXCEPT !.hash_store_ = Erase(@, key),
                         !.store_ = Put(@, key, value)]
    IN  [s |-> evict_if_needed(update_lru(s2, key)), ret |-> TRUE]

\* Mutant: a GET that hits does not touch the recency list.
get_without_touch(s, key, t) ==
    LET s1 == check_and_remove_expired(s, key, t)
    IN  IF key \notin DOMAIN s1.store_
        THEN [s |-> s1, ret |-> FALSE, outValue |-> ""]
        ELSE [s |-> s1, ret |-> TRUE, outValue |-> s1.store_[key]]

get(s, key, t) ==
    LET s1 == check_and_remove_expired(s, key, t)
    IN  IF key \notin DOMAIN s1.store_
        THEN [s |-> s1, ret |-> FALSE, outValue |-> ""]
        ELSE [s |-> update_lru(s1, key), ret |-> TRUE,
              outValue |-> s1.store_[key]]

\* Mutant: DEL does not probe the expiration of its key first.
del_without_probe(s, key, t) ==
    LET removed == key \in DOMAIN s.store_ \/ key \in DOMAIN s.hash_store_
    IN  IF removed
        THEN [s |-> [store_       |-> Erase(s.store_, key),
                     hash_store_  |-> Erase(s.hash_store_, key),
                     expirations_ |-> Erase(s.expirations_, key),
                     lru_order_   |-> IF key \in s.lru_map_
                                      THEN RemoveKey(s.lru_order_, key)
                                      ELSE s.lru_order_,
                     lru_map_     |-> s.lru_map_ \ {key}],
              ret |-> TRUE]
        ELSE [s |-> s, ret |-> FALSE]

\* Mutant: a DEL leaves the key's node in the recency list and its index.
del_keeps_node(s, key, t) ==
    LET s1 == check_and_remove_expired(s, key, t)
        removed == key \in DOMAIN s1.store_ \/ key \in DOMAIN s1.hash_store_
    IN  IF removed
        THEN [s |-> [s1 EXCEPT !.store_ = Erase(@, key),
                               !.hash_store_ = Erase(@, key),
                               !.expirations_ = Erase(@, key)],
              ret |-> TRUE]
        ELSE [s |-> s1, ret |-> FALSE]

del(s, key, t) ==
    LET s1 == check_and_remove_expired(s, key, t)
        removed == key \in DOMAIN s1.store_ \/ key \in DOMAIN s1.hash_store_
    IN  IF removed
        THEN [s |-> [store_       |-> Erase(s1.store_, key),
                     hash_store_  |-> Erase(s1.hash_store_, key),
                     expirations_ |-> Erase(s1.expirations_, key),
                     lru_order_   |-> IF key \in s1.lru_map_
                                      THEN RemoveKey(s1.lru_order_, key)
                                      ELSE s1.lru_order_,
                     lru_map_     |-> s1.lru_map_ \ {key}],
              ret |-> TRUE]
        ELSE [s |-> s1, ret |-> FALSE]

\* Mutant: EXISTS looks the key up without the expiry probe.
exists_unprobed(s, key, t) ==
    [s |-> s,
     ret |-> key \in DOMAIN s.store_ \/ key \in DOMAIN s.hash_store_]

exists(s, key, t) ==
    LET s1 == check_and_remove_expired(s, key, t)
    IN  [s |-> s1,
         ret |-> key \in DOMAIN s1.store_ \/ key \in DOMAIN s1.hash_store_]

\* Mutant: EXPIRE records a time to live for a key the store does not hold.
expire_unchecked(s, key, seconds, t) ==
    LET s1 == check_and_remove_expired(s, key, t)
    IN  [s |-> [s1 EXCEPT !.expirations_ = Put(@, key, t + seconds)],
         ret |-> TRUE]

expire(s, key, seconds, t) ==
    LET s1 == check_and_remove_expired(s, key, t)
        exists_ == key \in DOMAIN s1.store_ \/ key \in DOMAIN s1.hash_store_
    IN  IF ~exists_
        THEN [s |-> s1, ret |-> FALSE]
        ELSE [s |-> [s1 EXCEPT !.expirations_ = Put(@, key, t + seconds)],
              ret |-> TRUE]

ttl(s, key, t) ==
    LET s1 == check_and_remove_expired(s, key, t)
        exists_ == key \in DOMAIN s1.store_ \/ key \in DOMAIN s1.hash_store_
    IN  IF ~exists_ THEN [s |-> s1, ret |-> -2]
        ELSE IF key \notin DOMAIN s1.expirations_ THEN [s |-> s1, ret |-> -1]
        ELSE LET remaining == s1.expirations_[key] - t
             IN  [s |-> s1, ret |-> IF remaining > 0 THEN remaining ELSE -2]

type(s, key, t) ==
    LET s1 == check_and_remove_expired(s, key, t)
    IN  [s |-> s1,
         ret |-> IF key \in DOMAIN s1.store_ THEN "String"
                 ELSE IF key \in DOMAIN s1.hash_store_ THEN "Hash"
                 ELSE "None"]

hset(s, key, field, value, t) ==
    LET s1 == check_and_remove_expired(s, key, t)
        s2 == [s1 EXCEPT !.store_ = Erase(@, key)]
        \* hash_store_[key] default-constructs an empty hash when absent
        old == IF key \in DOMAIN s2.hash_store_ THEN s2.hash_store_[key]
               ELSE EmptyMap
        is_new == IF field \in DOMAIN old THEN 0 ELSE 1
        s3 == [s2 EXCEPT !.hash_store_ = Put(@, key, Put(old, field, value))]
    IN  [s |-> evict_if_needed(update_lru(s3, key)), ret |-> is_new]

hget(s, key, field, t) ==
    LET s1 == check_and_remove_expired(s, key, t)
    IN  IF key \notin DOMAIN s1.hash_store_
        THEN [s |-> s1, ret |-> FALSE, outValue |-> ""]
        ELSE IF field \notin DOMAIN s1.hash_store_[key]
        THEN [s |-> s1, ret |-> FALSE, outValue |-> ""]
        ELSE [s |-> update_lru(s1, key), ret |-> TRUE,
              outValue |-> s1.hash_store_[key][field]]


\* --------------------------------------------------------- RESP replies
CRLF == "\r\n"

resp_simple(msg) == "+" \o msg \o CRLF

resp_bulk(msg) == "$" \o ToString(Len(msg)) \o CRLF \o msg \o CRLF

resp_nil == "$-1" \o CRLF

resp_integer(value) == ":" \o ToString(value) \o CRLF

resp_err(msg) == "-" \o msg \o CRLF

RECURSIVE resp_array_items(_)
resp_array_items(items) ==
    IF items = <<>> THEN ""
    ELSE "$" \o ToString(Len(Head(items))) \o CRLF \o Head(items) \o CRLF
         \o resp_array_items(Tail(items))

resp_array(items) ==
    "*" \o ToString(Len(items)) \o CRLF \o resp_array_items(items)

WRONGTYPE == "WRONGTYPE Operation against a key holding the wrong kind of value"

\* ------------------------------------------------------------- std::stoi
Digits == {"0", "1", "2", "3", "4", "5", "6", "7", "8", "9"}

DigitVal(c) ==
    CASE c = "0" -> 0 [] c = "1" -> 1 [] c = "2" -> 2 [] c = "3" -> 3
      [] c = "4" -> 4 [] c = "5" -> 5 [] c = "6" -> 6 [] c = "7" -> 7
      [] c = "8" -> 8 [] c = "9" -> 9

Char(str, i) == SubSeq(str, i, i)

IsSpace(c) == c \in {" ", "\t", "\n", "\r", "\f"}

RECURSIVE SkipSpaces(_, _)
SkipSpaces(str, i) ==
    IF i <= Len(str) /\ IsSpace(Char(str, i)) THEN SkipSpaces(str, i + 1) ELSE i

\* The value of the digits from position i on, given the value acc so far.
RECURSIVE ReadDigits(_, _, _)
ReadDigits(str, i, acc) ==
    IF i <= Len(str) /\ Char(str, i) \in Digits
    THEN ReadDigits(str, i + 1, acc * 10 + DigitVal(Char(str, i)))
    ELSE acc

INT_MAX == 2^30 + (2^30 - 1)

\* std::stoi: leading white space, an optional sign, then the longest run of
\* digits; what follows is ignored.  ok = FALSE stands for the exception
\* (no digits: invalid_argument; does not fit an int: out_of_range).
stoi(str) ==
    LET i == SkipSpaces(str, 1)
        signed == i <= Len(str) /\ Char(str, i) \in {"+", "-"}
        j == IF signed THEN i + 1 ELSE i
        hasDigits == j <= Len(str) /\ Char(str, j) \in Digits
        mag == ReadDigits(str, j, 0)
        val == IF signed /\ Char(str, i) = "-" THEN 0 - mag ELSE mag
    IN  IF ~hasDigits THEN [ok |-> FALSE, val |-> 0]
        ELSE IF val > INT_MAX \/ val < 0 - INT_MAX - 1
        THEN [ok |-> FALSE, val |-> 0]
        ELSE [ok |-> TRUE, val |-> val]

\* ------------------------------------------- snapshot (save_to_rdb / load)
\* The snapshot file is the sequence of the fields written to it, each as a
\* string: an integer field (uint8, uint32, int64) as its digits, a run of
\* bytes as it is.
NoFile == [exists |-> FALSE, content |-> <<>>]

\* The orders in which a range-for can visit the elements of an unordered
\* container holding S.
Orderings(S) ==
    {f \in [1..Cardinality(S) -> S] :
        \A i, j \in 1..Cardinality(S) : i # j => f[i] # f[j]}

\* keys_to_check of save_to_rdb: the keys of store_ and hash_store_ (what the
\* purge leaves does not depend on their order).
keys_to_check(s) ==
    CHOOSE f \in Orderings(DOMAIN s.store_ \cup DOMAIN s.hash_store_) : TRUE

RECURSIVE purge_expired(_, _, _)
purge_expired(s, keys, t) ==
    IF keys = <<>> THEN s
    ELSE purge_expired(check_and_remove_expired(s, Head(keys), t),
                       Tail(keys), t)

\* The expiry field of a key: its expiration second, 0 when it has none.
rdb_expiry(s, key) ==
    IF key \in DOMAIN s.expirations_ THEN s.expirations_[key] ELSE 0

RECURSIVE rdb_strings(_, _)
rdb_strings(s, order) ==
    IF order = <<>> THEN <<>>
    ELSE LET key == Head(order)
             value == s.store_[key]
         IN  <<"0", ToString(Len(key)), key, ToString(Len(value)), value,
               ToString(rdb_expiry(s, key))>> \o rdb_strings(s, Tail(order))

RECURSIVE rdb_fields(_, _)
rdb_fields(fields, order) ==
    IF order = <<>> THEN <<>>
    ELSE LET field == Head(order)
             val == fields[field]
         IN  <<ToString(Len(field)), field, ToString(Len(val)), val>>
             \o rdb_fields(fields, Tail(order))

RECURSIVE rdb_hashes(_, _)
rdb_hashes(s, order) ==
    IF order = <<>> THEN <<>>
    ELSE LET key == Head(order)
             fields == s.hash_store_[key]
             \* nothing read back depends on the order of the fields
             field_order == CHOOSE f \in Orderings(DOMAIN fields) : TRUE
         IN  <<"1", ToString(Len(key)), key,
               ToString(Cardinality(DOMAIN fields))>>
             \o rdb_fields(fields, field_order)
             \o <<ToString(rdb_expiry(s, key))>>
             \o rdb_hashes(s, Tail(order))

\* KVStore::save_to_rdb at clock t.  strings and hashes are the orders in
\* which store_ and hash_store_ are visited after the purge; is_open is
\* whether the file could be opened for writing.
save_to_rdb(s, t, strings, hashes, is_open) ==
    LET s1 == purge_expired(s, keys_to_check(s), t)
    IN  IF ~is_open THEN [s |-> s1, ret |-> FALSE, content |-> <<>>]
        ELSE [s |-> s1, ret |-> TRUE,
              content |-> <<ToString(size(s1))>> \o rdb_strings(s1, strings)
                              \o rdb_hashes(s1, hashes)]

\* file.read at field pos leaves the stream good.
Good(content, pos) == pos <= Len(content)

\* An integer field read at pos; a failed read leaves the variable 0.
ReadInt(content, pos) ==
    IF Good(content, pos) THEN ReadDigits(content[pos], 1, 0) ELSE 0

\* The n bytes read at pos; a failed read leaves them zero.
ReadBytes(content, pos, n) ==
    IF Good(content, pos) /\ Len(content[pos]) >= n
    THEN SubSeq(content[pos], 1, n) ELSE ""

GoodBytes(content, pos, n) == Good(content, pos) /\ Len(content[pos]) >= n

\* The loop over the fields of one hash: its reads are not checked.
RECURSIVE load_fields(_, _, _, _, _)
load_fields(s, content, pos, key, num_fields) ==
    IF num_fields = 0 THEN [s |-> s, pos |-> pos]
    ELSE LET field == ReadBytes(content, pos + 1, ReadInt(content, pos))
             val == ReadBytes(content, pos + 3, ReadInt(content, pos + 2))
             old == IF key \in DOMAIN s.hash_store_ THEN s.hash_store_[key]
                    ELSE EmptyMap
         IN  load_fields([s EXCEPT !.hash_store_ =
                                     Put(@, key, Put(old, field, val))],
                         content, pos + 4, key, num_fields - 1)

\* The loop of load_from_rdb over the entries, from field pos on.
RECURSIVE load_entries(_, _, _, _, _)
load_entries(s, content, pos, num_keys, t) ==
    IF num_keys = 0 THEN [s |-> evict_if_needed(s), ret |-> TRUE]
    ELSE IF ~Good(content, pos) \/ ~Good(content, pos + 1)
            \/ ~GoodBytes(content, pos + 2, ReadInt(content, pos + 1))
    THEN [s |-> s, ret |-> FALSE]
    ELSE
    LET type_ == ReadInt(content, pos)
        key == ReadBytes(content, pos + 2, ReadInt(content, pos + 1))
        loaded ==
            IF type_ = 0
            THEN IF ~Good(content, pos + 3)
                    \/ ~GoodBytes(content, pos + 4, ReadInt(content, pos + 3))
                 THEN [s |-> s, pos |-> pos, ok |-> FALSE]
                 ELSE [s |-> [s EXCEPT !.store_ = Put(@, key,
                                  ReadBytes(content, pos + 4,
                                            ReadInt(content, pos + 3)))],
                       pos |-> pos + 5, ok |-> TRUE]
            ELSE IF type_ = 1
            THEN IF ~Good(content, pos + 3)
                 THEN [s |-> s, pos |-> pos, ok |-> FALSE]
                 ELSE LET h == load_fields(s, content, pos + 4, key,
                                           ReadInt(content, pos + 3))
                      IN  [s |-> h.s, pos |-> h.pos, ok |-> TRUE]
            ELSE [s |-> s, pos |-> pos, ok |-> FALSE]
        s1 == update_lru(loaded.s, key)
        expiry == ReadInt(content, loaded.pos)
        s2 == IF expiry > 0 /\ expiry > t
              THEN [s1 EXCEPT !.expirations_ = Put(@, key, expiry)]
              ELSE s1
    IN  IF ~loaded.ok THEN [s |-> loaded.s, ret |-> FALSE]
        ELSE IF ~Good(content, loaded.pos) THEN [s |-> s1, ret |-> FALSE]
        ELSE load_entries(s2, content, loaded.pos + 1, num_keys - 1, t)

\* KVStore::load_from_rdb at clock t.
load_from_rdb(s, file, t) ==
    IF ~file.exists THEN [s |-> s, ret |-> FALSE]
    ELSE IF ~Good(file.content, 1) THEN [s |-> s, ret |-> FALSE]
    ELSE load_entries(EmptyStore, file.content, 2,
                      ReadInt(file.content, 1), t)

\* ---------------------------------------------------- journal (producer)
\* At most this many commands are journaled in one run.
MaxJournal == 3

\* aof_logger.cpp command_to_resp: the wire form of a journaled command.
command_to_resp(cmd) ==
    IF cmd.type \notin {"SET", "DEL", "EXPIRE"} THEN ""
    ELSE "*" \o ToString(1 + Len(cmd.args)) \o CRLF
         \o "$" \o ToString(Len(cmd.type)) \o CRLF \o cmd.type \o CRLF
         \o resp_array_items(cmd.args)

\* AOFLogger::append: the queue after the call.
append(queue, cmd) ==
    IF cmd.type \notin {"SET", "DEL", "EXPIRE"} THEN queue
    ELSE IF command_to_resp(cmd) = "" THEN queue
    ELSE Append(queue, command_to_resp(cmd))

\* ------------------------------------------------------- journal (replay)
\* The bytes of the journal file: what the writer thread wrote, in order.
RECURSIVE Concat(_)
Concat(chunks) ==
    IF chunks = <<>> THEN "" ELSE Head(chunks) \o Concat(Tail(chunks))

\* std::string::find(sub, from).  Positions count from 1 here (the C++
\* position plus one); 0 stands for npos.
RECURSIVE Find(_, _, _)
Find(str, sub, from) ==
    IF from + Len(sub) - 1 > Len(str) THEN 0
    ELSE IF SubSeq(str, from, from + Len(sub) - 1) = sub THEN from
    ELSE Find(str, sub, from + 1)

Lower == "abcdefghijklmnopqrstuvwxyz"
Upper == "ABCDEFGHIJKLMNOPQRSTUVWXYZ"

\* std::toupper on the letters a..z, as a table.
toupper == [c \in {Char(Lower, i) : i \in 1..Len(Lower)} |->
              Char(Upper, Find(Lower, c, 1))]

\* The loop "c = toupper(c)" over a string.
RECURSIVE ToUpper(_)
ToUpper(str) ==
    IF str = "" THEN ""
    ELSE (IF Char(str, 1) \in DOMAIN toupper THEN toupper[Char(str, 1)]
          ELSE Char(str, 1))
         \o ToUpper(SubSeq(str, 2, Len(str)))

ParseFailed(pos) == [ok |-> FALSE, threw |-> FALSE, pos |-> pos, args |-> <<>>]
ParseThrew(pos) == [ok |-> FALSE, threw |-> TRUE, pos |-> pos, args |-> <<>>]

\* The loop of parse_resp_array over count bulk strings, from pos on.
RECURSIVE parse_bulk_strings(_, _, _, _)
parse_bulk_strings(resp_data, pos, count, args) ==
    IF count <= 0
    THEN [ok |-> TRUE, threw |-> FALSE, pos |-> pos, args |-> args]
    ELSE IF pos > Len(resp_data) \/ Char(resp_data, pos) # "$"
    THEN ParseFailed(pos)
    ELSE
    LET len_end == Find(resp_data, CRLF, pos + 1)
        len == stoi(SubSeq(resp_data, pos + 1, len_end - 1))
        from == len_end + 2
        \* pos + len in size_t arithmetic wraps below zero to a huge value
        past == from + len.val
    IN  IF len_end = 0 THEN ParseFailed(pos)
        ELSE IF ~len.ok THEN ParseThrew(pos)
        ELSE IF past < 1 \/ past > Len(resp_data) + 1 THEN ParseFailed(from)
        ELSE IF past + 1 > Len(resp_data)
                \/ SubSeq(resp_data, past, past + 1) # CRLF
        THEN ParseFailed(past)
        ELSE parse_bulk_strings(resp_data, past + 2, count - 1,
                 Append(args, IF len.val < 0
                              THEN SubSeq(resp_data, from, Len(resp_data))
                              ELSE SubSeq(resp_data, from, past - 1)))

\* aof_logger.cpp parse_resp_array: ok, the position after the frame and its
\* arguments; threw when std::stoi raised an exception.
parse_resp_array(resp_data, pos) ==
    IF pos > Len(resp_data) \/ Char(resp_data, pos) # "*"
    THEN ParseFailed(pos)
    ELSE LET count_end == Find(resp_data, CRLF, pos + 1)
             count == stoi(SubSeq(resp_data, pos + 1, count_end - 1))
         IN  IF count_end = 0 THEN ParseFailed(pos)
             ELSE IF ~count.ok THEN ParseThrew(pos)
             ELSE parse_bulk_strings(resp_data, count_end + 2, count.val, <<>>)

\* The command of one journal frame applied to the store, as replay does.
replay_command(s, args, t) ==
    LET cmd_name == ToUpper(args[1])
        cmd_args == Tail(args)
    IN  IF cmd_name = "SET" /\ Len(cmd_args) >= 2
        THEN set(s, cmd_args[1], cmd_args[2], t).s
        ELSE IF cmd_name = "DEL" /\ Len(cmd_args) >= 1
        THEN del(s, cmd_args[1], t).s
        ELSE IF cmd_name = "EXPIRE" /\ Len(cmd_args) >= 2
        THEN IF stoi(cmd_args[2]).ok
             THEN expire(s, cmd_args[1], stoi(cmd_args[2]).val, t).s
             ELSE s
        ELSE s

\* The loop of AOFLogger::replay over the file content, from pos on.
RECURSIVE replay_from(_, _, _, _)
replay_from(s, content, pos, t) ==
    IF pos > Len(content) THEN [s |-> s, ret |-> TRUE, threw |-> FALSE]
    ELSE LET p == parse_resp_array(content, pos)
             next_star == Find(content, "*", pos + 1)
         IN  IF p.threw THEN [s |-> s, ret |-> FALSE, threw |-> TRUE]
             ELSE IF ~p.ok
             THEN IF next_star = 0
                  THEN [s |-> s, ret |-> TRUE, threw |-> FALSE]
                  ELSE replay_from(s, content, next_star, t)
             ELSE IF p.args = <<>> THEN replay_from(s, content, p.pos, t)
             ELSE replay_from(replay_command(s, p.args, t), content, p.pos, t)

\* AOFLogger::replay at clock t on the journal file with the given content.
replay(s, content, t) ==
    IF content = "" THEN [s |-> s, ret |-> TRUE, threw |-> FALSE]
    ELSE replay_from(s, content, 1, t)

\* ------------------------------------------------------------- wire codec
\* The rest of a string from position i on (std::string::erase(0, i - 1)).
From(str, i) == SubSeq(str, i, Len(str))

\* RespParser::append.
RespParser_append(buffer, data) == buffer \o data

\* RespParser::readLine: the line up to the first CRLF, erased from the
\* buffer together with the CRLF; ok = FALSE stands for nullopt.
readLine_at(buffer, pos) ==
    IF pos = 0 THEN [ok |-> FALSE, line |-> "", buffer |-> buffer]
    ELSE [ok |-> TRUE, line |-> SubSeq(buffer, 1, pos - 1),
          buffer |-> From(buffer, pos + 2)]

readLine(buffer) == readLine_at(buffer, Find(buffer, CRLF, 1))

\* RespParser::readBytes: n bytes and the CRLF after them.  When the CRLF is
\* not there the n bytes are already erased.
readBytes_crlf(data, rest) ==
    IF SubSeq(rest, 1, 2) # CRLF
    THEN [ok |-> FALSE, data |-> "", buffer |-> rest]
    ELSE [ok |-> TRUE, data |-> data, buffer |-> From(rest, 3)]

readBytes(buffer, n) ==
    IF Len(buffer) < n + 2
    THEN [ok |-> FALSE, data |-> "", buffer |-> buffer]
    ELSE readBytes_crlf(SubSeq(buffer, 1, n), From(buffer, n + 1))

\* RespResult, with the parser's buffer after the call; threw stands for an
\* exception of std::stoi leaving parse.
RespResult(complete, command, error, buffer) ==
    [complete |-> complete, command |-> command, error |-> error,
     buffer |-> buffer, threw |-> FALSE]

RespThrew(buffer) ==
    [complete |-> FALSE, command |-> <<>>, error |-> "", buffer |-> buffer,
     threw |-> TRUE]

\* The upper-casing of the first element at the end of RespParser::parse.
\* Mutant: every element is upper-cased.
parse_done_all(buffer, elements) ==
    RespResult(TRUE, [i \in 1..Len(elements) |-> ToUpper(elements[i])],
               "", buffer)

parse_done(buffer, elements) ==
    RespResult(TRUE,
               IF elements = <<>> THEN elements
               ELSE <<ToUpper(elements[1])>> \o Tail(elements),
               "", buffer)

\* The loop of RespParser::parse over the bulk strings still to read.  The
\* steps of one turn: the "$", the length line (lenLine), its number (len),
\* the bytes (data).
RECURSIVE parse_elements(_, _, _)

parse_bulk_data(data, count, elements) ==
    IF ~data.ok THEN RespResult(FALSE, <<>>, "", data.buffer)
    ELSE parse_elements(data.buffer, count - 1, Append(elements, data.data))

parse_bulk_len(buffer, len, count, elements) ==
    IF ~len.ok THEN RespThrew(buffer)
    ELSE IF len.val < 0
    THEN parse_elements(buffer, count - 1, Append(elements, ""))
    ELSE parse_bulk_data(readBytes(buffer, len.val), count, elements)

parse_bulk_line(lenLine, count, elements) ==
    IF ~lenLine.ok THEN RespResult(FALSE, <<>>, "", lenLine.buffer)
    ELSE parse_bulk_len(lenLine.buffer, stoi(lenLine.line), count, elements)

parse_elements(buffer, count, elements) ==
    IF count = 0 THEN parse_done(buffer, elements)
    ELSE IF buffer = "" THEN RespResult(FALSE, <<>>, "", buffer)
    ELSE IF Char(buffer, 1) # "$"
    THEN RespResult(TRUE, <<>>, "ERR expected bulk string", buffer)
    ELSE parse_bulk_line(readLine(From(buffer, 2)), count, elements)

\* RespParser::parse from the array length on (count), read from countLine.
parse_count(buffer, count) ==
    IF ~count.ok THEN RespThrew(buffer)
    ELSE IF count.val <= 0
    THEN RespResult(TRUE, <<>>, "ERR invalid array length", buffer)
    ELSE parse_elements(buffer, count.val, <<>>)

parse_count_line(countLine) ==
    IF ~countLine.ok THEN RespResult(FALSE, <<>>, "", countLine.buffer)
    ELSE parse_count(countLine.buffer, stoi(countLine.line))

\* RespParser::parse.
RespParser_parse(buffer) ==
    IF buffer = "" THEN RespResult(FALSE, <<>>, "", buffer)
    ELSE IF Char(buffer, 1) # "*"
    THEN RespResult(TRUE, <<>>, "ERR expected array", buffer)
    ELSE parse_count_line(readLine(From(buffer, 2)))

\* extract_resp_commands: the frames parsed until the parser wants more
\* data or reports an error, the error, and the parser's buffer afterwards.
RECURSIVE extract_resp_commands(_, _)

extract_result(result, commands) ==
    IF result.threw
    THEN [commands |-> commands, error |-> "", buffer |-> result.buffer,
          threw |-> TRUE]
    ELSE IF ~result.complete
    THEN [commands |-> commands, error |-> "", buffer |-> result.buffer,
          threw |-> FALSE]
    ELSE IF result.error # ""
    THEN [commands |-> commands, error |-> result.error,
          buffer |-> result.buffer, threw |-> FALSE]
    ELSE extract_resp_commands(
             result.buffer,
             IF result.command # <<>> THEN Append(commands, result.command)
             ELSE commands)

extract_resp_commands(buffer, commands) ==
    extract_result(RespParser_parse(buffer), commands)

\* command_from_resp_array: the names the dispatcher knows.
KnownNames ==
    {"PING", "ECHO", "SET", "GET", "DEL", "EXISTS", "KEYS", "EXPIRE", "TTL",
     "MGET", "QUIT", "SAVE", "LOAD", "SELECT", "INFO", "SUBSCRIBE", "PUBLISH",
     "EVAL", "AUTH"}

command_from_resp_array(args) ==
    IF args = <<>> THEN [type |-> "UNKNOWN", args |-> <<>>]
    ELSE [type |-> IF args[1] \in KnownNames THEN args[1] ELSE "UNKNOWN",
          args |-> Tail(args)]

\* ------------------------------------------------------------ replication
\* replication.cpp command_to_resp: the wire form of a replicated command.
replication_command_to_resp(cmd) ==
    IF cmd.type \notin {"SET", "DEL", "EXPIRE"} THEN ""
    ELSE "*" \o ToString(1 + Len(cmd.args)) \o CRLF
         \o "$" \o ToString(Len(cmd.type)) \o CRLF \o cmd.type \o CRLF
         \o resp_array_items(cmd.args)

\* The replicas a command is sent to.
Connected(replicas) == {i \in DOMAIN replicas : replicas[i].connected}

\* Mutant: a replica whose send failed is left marked connected.
replicate_command_keeps(replicas, cmd, failed) ==
    IF cmd.type \notin {"SET", "DEL", "EXPIRE"} THEN replicas
    ELSE IF replication_command_to_resp(cmd) = "" THEN replicas
    ELSE [i \in DOMAIN replicas |->
            IF ~replicas[i].connected \/ i \in failed THEN replicas[i]
            ELSE [replicas[i] EXCEPT
                    !.sent = Append(@, replication_command_to_resp(cmd))]]

\* ReplicationManager::replicate_command: replicas_ after the call.  failed:
\* the connected replicas whose send fails; they are marked disconnected.
replicate_command(replicas, cmd, failed) ==
    IF cmd.type \notin {"SET", "DEL", "EXPIRE"} THEN replicas
    ELSE IF replication_command_to_resp(cmd) = "" THEN replicas
    ELSE [i \in DOMAIN replicas |->
            IF ~replicas[i].connected THEN replicas[i]
            ELSE IF i \in failed
            THEN [replicas[i] EXCEPT !.connected = FALSE]
            ELSE [replicas[i] EXCEPT
                    !.sent = Append(@, replication_command_to_resp(cmd))]]

\* Room left for one more journaled command (model bound).
JournalRoom ==
    ~g_aof_logger \/ Len(command_queue_) + Len(aof_file) < MaxJournal

\* ------------------------------------------------------ command handlers
\* X_execute(s, args, t) is XCommand::execute on store s at clock t: the
\* store after it, CommandResult::reply, and whether the command was handed
\* to the journal and the replicas.
Result(s, r, logged) == [s |-> s, reply |-> r, logged |-> logged]

SetCommand_execute(s, args, t) ==
    IF Len(args) < 2
    THEN Result(s, resp_err("SET requires key and value"), FALSE)
    ELSE Result(set(s, args[1], args[2], t).s, resp_simple("OK"), TRUE)

GetCommand_execute(s, args, t) ==
    IF Len(args) = 0 THEN Result(s, resp_err("GET requires a key"), FALSE)
    ELSE LET ty == type(s, args[1], t)
             g == get(ty.s, args[1], t)
         IN  IF ty.ret = "Hash" THEN Result(ty.s, resp_err(WRONGTYPE), FALSE)
             ELSE IF g.ret THEN Result(g.s, resp_bulk(g.outValue), FALSE)
             ELSE Result(g.s, resp_nil, FALSE)

\* tcp_server.cpp process_command, case GET: no type check.
process_command_GET(s, args, t) ==
    IF Len(args) = 0 THEN Result(s, resp_err("GET requires a key"), FALSE)
    ELSE LET g == get(s, args[1], t)
         IN  IF g.ret THEN Result(g.s, resp_bulk(g.outValue), FALSE)
             ELSE Result(g.s, resp_nil, FALSE)

DelCommand_execute(s, args, t) ==
    IF Len(args) = 0 THEN Result(s, resp_err("DEL requires a key"), FALSE)
    ELSE LET d == del(s, args[1], t)
         IN  Result(d.s, resp_integer(IF d.ret THEN 1 ELSE 0), d.ret)

ExistsCommand_execute(s, args, t) ==
    IF Len(args) = 0 THEN Result(s, resp_err("EXISTS requires a key"), FALSE)
    ELSE LET e == exists(s, args[1], t)
         IN  Result(e.s, resp_integer(IF e.ret THEN 1 ELSE 0), FALSE)

ExpireCommand_execute(s, args, t) ==
    IF Len(args) < 2
    THEN Result(s, resp_err("EXPIRE requires key and seconds"), FALSE)
    ELSE LET seconds == stoi(args[2])
             e == expire(s, args[1], seconds.val, t)
         IN  IF ~seconds.ok
             THEN Result(s, resp_err("Invalid seconds value"), FALSE)
             ELSE Result(e.s, resp_integer(IF e.ret THEN 1 ELSE 0), e.ret)

TTLCommand_execute(s, args, t) ==
    IF Len(args) = 0 THEN Result(s, resp_err("TTL requires a key"), FALSE)
    ELSE LET r == ttl(s, args[1], t)
         IN  Result(r.s, resp_integer(r.ret), FALSE)

\* The loop of MGetCommand over cmd.args: the store after it and the values
\* collected ("" for a key that is missing or holds a Hash).
RECURSIVE MGetValues(_, _, _)
MGetValues(s, args, t) ==
    IF args = <<>> THEN [s |-> s, values |-> <<>>]
    ELSE LET ty == type(s, Head(args), t)
             g == get(ty.s, Head(args), t)
             s1 == IF ty.ret = "Hash" THEN ty.s ELSE g.s
             v == IF ty.ret = "Hash" THEN ""
                  ELSE IF g.ret THEN g.outValue ELSE ""
             more == MGetValues(s1, Tail(args), t)
         IN  [s |-> more.s, values |-> <<v>> \o more.values]

\* The same loop in process_command, case MGET: kv.get only.
RECURSIVE ProcessMGetValues(_, _, _)
ProcessMGetValues(s, args, t) ==
    IF args = <<>> THEN [s |-> s, values |-> <<>>]
    ELSE LET g == get(s, Head(args), t)
             v == IF g.ret THEN g.outValue ELSE ""
             more == ProcessMGetValues(g.s, Tail(args), t)
         IN  [s |-> more.s, values |-> <<v>> \o more.values]

\* The second loop of both MGET handlers: one element per collected value.
RECURSIVE mget_elements(_)
mget_elements(values) ==
    IF values = <<>> THEN ""
    ELSE (IF Head(values) = "" THEN resp_nil ELSE resp_bulk(Head(values)))
         \o mget_elements(Tail(values))

mget_result(values) ==
    "*" \o ToString(Len(values)) \o CRLF \o mget_elements(values)

MGetCommand_execute(s, args, t) ==
    IF Len(args) = 0
    THEN Result(s, resp_err("MGET requires at least one key"), FALSE)
    ELSE LET m == MGetValues(s, args, t)
         IN  Result(m.s, mget_result(m.values), FALSE)

process_command_MGET(s, args, t) ==
    IF Len(args) = 0
    THEN Result(s, resp_err("MGET requires at least one key"), FALSE)
    ELSE LET m == ProcessMGetValues(s, args, t)
         IN  Result(m.s, mget_result(m.values), FALSE)

\* Mutant: HSET without the type check, so that it overwrites a String.
HSetCommand_execute_unchecked(s, args, t) ==
    IF Len(args) < 3
    THEN Result(s, resp_err("HSET requires key, field, and value"), FALSE)
    ELSE LET h == hset(s, args[1], args[2], args[3], t)
         IN  Result(h.s, resp_integer(h.ret), TRUE)

HSetCommand_execute(s, args, t) ==
    IF Len(args) < 3
    THEN Result(s, resp_err("HSET requires key, field, and value"), FALSE)
    ELSE LET ty == type(s, args[1], t)
             h == hset(ty.s, args[1], args[2], args[3], t)
         IN  IF ty.ret = "String" THEN Result(ty.s, resp_err(WRONGTYPE), FALSE)
             ELSE Result(h.s, resp_integer(h.ret), TRUE)

HGetCommand_execute(s, args, t) ==
    IF Len(args) < 2
    THEN Result(s, resp_err("HGET requires key and field"), FALSE)
    ELSE LET ty == type(s, args[1], t)
             h == hget(ty.s, args[1], args[2], t)
         IN  IF ty.ret = "String" THEN Result(ty.s, resp_err(WRONGTYPE), FALSE)
             ELSE IF h.ret THEN Result(h.s, resp_bulk(h.outValue), FALSE)
             ELSE Result(h.s, resp_nil, FALSE)

\* --------------------------------------------------------------- actions
kv == databases[db_index]

\* The keys that have a value in store s.
Present(s) == DOMAIN s.store_ \cup DOMAIN s.hash_store_

\* What a handler does not touch.
sessionVars == <<db_index, now, rdb_file, saved, g_aof_logger, aof_file,
                 g_replication_manager, netVars, threadVars>>

\* A handler has run: the store and the reply it leaves, the journal append
\* under "if (g_aof_logger && logged)", and the command as history.
Handled(cmd, r) ==
    /\ databases' = [databases EXCEPT ![db_index] = r.s]
    /\ reply' = r.reply
    /\ last_cmd' = cmd
    /\ last_at' = now
    /\ last_removed' = Present(kv) \ Present(r.s)
    /\ command_queue_' = IF g_aof_logger /\ r.logged
                         THEN append(command_queue_, cmd) ELSE command_queue_
    /\ \E failed \in SUBSET Connected(replicas_) :
          replicas_' = IF g_replication_manager /\ r.logged
                       THEN replicate_command(replicas_, cmd, failed)
                       ELSE replicas_

SetCommand(args) ==
    /\ JournalRoom
    /\ Handled([type |-> "SET", args |-> args], SetCommand_execute(kv, args, now))
    /\ UNCHANGED sessionVars

GetCommand(args) ==
    /\ Handled([type |-> "GET", args |-> args], GetCommand_execute(kv, args, now))
    /\ UNCHANGED sessionVars

ProcessGet(args) ==
    /\ Handled([type |-> "GET", args |-> args], process_command_GET(kv, args, now))
    /\ UNCHANGED sessionVars

DelCommand(args) ==
    /\ JournalRoom
    /\ Handled([type |-> "DEL", args |-> args], DelCommand_execute(kv, args, now))
    /\ UNCHANGED sessionVars

ExistsCommand(args) ==
    /\ Handled([type |-> "EXISTS", args |-> args],
               ExistsCommand_execute(kv, args, now))
    /\ UNCHANGED sessionVars

ExpireCommand(args) ==
    /\ JournalRoom
    /\ Handled([type |-> "EXPIRE", args |-> args],
               ExpireCommand_execute(kv, args, now))
    /\ UNCHANGED sessionVars

TTLCommand(args) ==
    /\ Handled([type |-> "TTL", args |-> args], TTLCommand_execute(kv, args, now))
    /\ UNCHANGED sessionVars

MGetCommand(args) ==
    /\ Handled([type |-> "MGET", args |-> args],
               MGetCommand_execute(kv, args, now))
    /\ UNCHANGED sessionVars

ProcessMGet(args) ==
    /\ Handled([type |-> "MGET", args |-> args],
               process_command_MGET(kv, args, now))
    /\ UNCHANGED sessionVars

HSetCommand(args) ==
    /\ JournalRoom
    /\ Handled([type |-> "HSET", args |-> args],
               HSetCommand_execute(kv, args, now))
    /\ UNCHANGED sessionVars

HGetCommand(args) ==
    /\ Handled([type |-> "HGET", args |-> args],
               HGetCommand_execute(kv, args, now))
    /\ UNCHANGED sessionVars

\* What claim C9 calls the live keys of a store at clock t: the values and the
\* expiration seconds of the keys that are not expired.
NoSnapshot ==
    [taken |-> FALSE, store_ |-> EmptyMap, hash_store_ |-> EmptyMap,
     expirations_ |-> EmptyMap]

LiveKeys(s, t) ==
    {k \in DOMAIN s.store_ \cup DOMAIN s.hash_store_ :
        ~(k \in DOMAIN s.expirations_ /\ t >= s.expirations_[k])}

LiveContents(s, t) ==
    [taken |-> TRUE,
     store_ |-> [k \in DOMAIN s.store_ \cap LiveKeys(s, t) |-> s.store_[k]],
     hash_store_ |-> [k \in DOMAIN s.hash_store_ \cap LiveKeys(s, t) |->
                         s.hash_store_[k]],
     expirations_ |-> [k \in DOMAIN s.expirations_ \cap LiveKeys(s, t) |->
                          s.expirations_[k]]]

\* SaveCommand::execute.  is_open: whether mini_redis_dump.rdb could be opened.
SaveCommand(is_open) ==
    LET purged == purge_expired(kv, keys_to_check(kv), now)
    IN  \E strings \in Orderings(DOMAIN purged.store_),
           hashes \in Orderings(DOMAIN purged.hash_store_) :
          LET r == save_to_rdb(kv, now, strings, hashes, is_open)
          IN  /\ Handled([type |-> "SAVE", args |-> <<>>],
                         Result(r.s, IF r.ret THEN resp_simple("OK")
                                     ELSE resp_err("ERR Save failed"), FALSE))
              /\ rdb_file' = IF r.ret
                             THEN [exists |-> TRUE, content |-> r.content]
                             ELSE rdb_file
              /\ saved' = IF r.ret THEN LiveContents(kv, now) ELSE saved
              /\ UNCHANGED <<db_index, now, g_aof_logger, aof_file,
                             g_replication_manager, netVars, threadVars>>

\* SaveCommand::execute when the stream goes bad while the snapshot is being
\* written (save_to_rdb returns false at one of its file.good() tests): the
\* file opened for writing keeps the fields that were written before.
SaveCommand_cut ==
    LET purged == purge_expired(kv, keys_to_check(kv), now)
    IN  \E strings \in Orderings(DOMAIN purged.store_),
           hashes \in Orderings(DOMAIN purged.hash_store_) :
          LET r == save_to_rdb(kv, now, strings, hashes, TRUE)
          IN  \E written \in 0..(Len(r.content) - 1) :
                /\ Handled([type |-> "SAVE", args |-> <<>>],
                           Result(r.s, resp_err("ERR Save failed"), FALSE))
                /\ rdb_file' = [exists |-> TRUE,
                                content |-> SubSeq(r.content, 1, written)]
                /\ saved' = NoSnapshot
                /\ UNCHANGED <<db_index, now, g_aof_logger, aof_file,
                               g_replication_manager, netVars, threadVars>>

\* A snapshot file that this build did not write: its one entry has a type
\* byte that load_from_rdb does not know.
ForeignFile ==
    /\ rdb_file' = [exists |-> TRUE,
                    content |-> <<"1", "2", "2", "k1", "1", "a", "0">>]
    /\ saved' = NoSnapshot
    /\ UNCHANGED <<databases, db_index, now, last_cmd, last_at, last_removed,
                   reply>>
    /\ UNCHANGED aofVars
    /\ UNCHANGED <<g_replication_manager, replicas_, netVars, threadVars>>

\* LoadCommand::execute.
LoadCommand ==
    LET r == load_from_rdb(kv, rdb_file, now)
    IN  /\ Handled([type |-> "LOAD", args |-> <<>>],
                   Result(r.s, IF r.ret THEN resp_simple("OK")
                               ELSE resp_err("ERR Load failed"), FALSE))
        /\ UNCHANGED sessionVars

\* KVStore::keys at clock t: the expired keys of both stores are purged, then
\* the keys of store_ and of hash_store_ are listed.  strings and hashes are
\* the orders in which the two unordered maps are visited.
keys(s, t, strings, hashes) ==
    [s |-> purge_expired(s, keys_to_check(s), t), ret |-> strings \o hashes]

\* KeysCommand::execute.
KeysCommand_execute(s, args, t, strings, hashes) ==
    IF args = <<>> \/ args[1] # "*"
    THEN Result(s, resp_err("KEYS only supports wildcard *"), FALSE)
    ELSE LET k == keys(s, t, strings, hashes)
         IN  Result(k.s, resp_array(k.ret), FALSE)

KeysCommand(args) ==
    LET purged == purge_expired(kv, keys_to_check(kv), now)
    IN  \E strings \in Orderings(DOMAIN purged.store_),
           hashes \in Orderings(DOMAIN purged.hash_store_) :
          /\ Handled([type |-> "KEYS", args |-> args],
                     KeysCommand_execute(kv, args, now, strings, hashes))
          /\ UNCHANGED sessionVars

\* One turn of the inner loop of AOFLogger::writer_thread_func: the front of
\* the queue is written to the journal file.
writer_thread_func ==
    /\ g_aof_logger
    /\ command_queue_ # <<>>
    /\ aof_file' = Append(aof_file, Head(command_queue_))
    /\ command_queue_' = Tail(command_queue_)
    /\ UNCHANGED <<databases, db_index, now, last_cmd, last_at, last_removed,
                   reply, g_aof_logger, rdb_file, saved,
                   g_replication_manager, replicas_, netVars, threadVars>>

\* The server process ends and start_server runs again on the same journal
\* file: fresh databases, the journal replayed into database 0.  What was
\* still in the queue of the old process is lost.  No caller of replay
\* catches: an exception that leaves it ends the new process (TERMINATE).
Restart ==
    /\ g_aof_logger
    /\ databases' = [i \in DOMAIN databases |->
                        IF i = 0
                        THEN replay(EmptyStore, Concat(aof_file), now).s
                        ELSE EmptyStore]
    /\ command_queue_' = <<>>
    /\ db_index' = 0
    /\ last_cmd' = [type |-> IF replay(EmptyStore, Concat(aof_file), now).threw
                             THEN "TERMINATE" ELSE "RESTART",
                    args |-> <<>>]
    /\ last_at' = now
    /\ last_removed' = {}
    /\ reply' = ""
    /\ UNCHANGED <<now, g_aof_logger, aof_file, rdb_file, saved,
                   g_replication_manager, replicas_, netVars, threadVars>>

\* ------------------------------------------------------------ the inputs
\* The keys of the command streams that stay below the eviction threshold.
TypeKeys == {"k1", "k2"}

KeyArgs(K) == {<<k>> : k \in K}
SetArgs(K, V) == {<<k, v>> : k \in K, v \in V}
ExpireArgs(K, N) == {<<k, n>> : k \in K, n \in N}
MGetArgs(K) == KeyArgs(K) \cup {<<j, k>> : j \in K, k \in K}
HSetArgs(K) == {<<k, f, w>> : k \in K, f \in Fields, w \in HashValues}
HGetArgs(K, F) == {<<k, f>> : k \in K, f \in F}

\* ----------------------------------------------------------------- counters
INT64_MIN == 0 - INT64_MAX - 1

\* std::stoll: as std::stoi, on 64 bits.
stoll_of(val, hasDigits) ==
    IF ~hasDigits \/ val > INT64_MAX \/ val < INT64_MIN
    THEN [ok |-> FALSE, val |-> 0]
    ELSE [ok |-> TRUE, val |-> val]

stoll_signed(str, i, negative, j) ==
    stoll_of(IF negative THEN 0 - ReadDigits(str, j, 0)
             ELSE ReadDigits(str, j, 0),
             j <= Len(str) /\ Char(str, j) \in Digits)

stoll_at(str, i) ==
    IF i <= Len(str) /\ Char(str, i) \in {"+", "-"}
    THEN stoll_signed(str, i, Char(str, i) = "-", i + 1)
    ELSE stoll_signed(str, i, FALSE, i)

stoll(str) == stoll_at(str, SkipSpaces(str, 1))

\* The decimal texts of the signed 64-bit integers: what a counter may hold.
Int64Texts == {ToString(n) : n \in INT64_MIN..INT64_MAX}

\* The integer a decimal text stands for.
Int64Of(str) == CHOOSE n \in INT64_MIN..INT64_MAX : ToString(n) = str

\* The result of a counter operation: the store, the new value, the error.
Counted(s, val, err) == [s |-> s, val |-> val, err |-> err]

\* The write of a counter: the decimal text of the new value is stored and
\* the key moved to the front of the recency list; a value that does not
\* fit 64 bits is an error.
counter_write(s, key, value) ==
    IF value > INT64_MAX \/ value < INT64_MIN
    THEN Counted(s, 0, "ERR increment or decrement would overflow")
    ELSE Counted(evict_if_needed(
                     update_lru([s EXCEPT !.store_ = Put(@, key, ToString(value))],
                                key)),
                 value, "")

\* A counter operation on the store after the key's expiry probe: change is
\* added to the integer the key holds, 0 when it is absent.
counter_probed(s, key, change) ==
    IF key \in DOMAIN s.hash_store_ THEN Counted(s, 0, WRONGTYPE)
    ELSE IF key \notin DOMAIN s.store_ THEN counter_write(s, key, change)
    ELSE IF s.store_[key] \notin Int64Texts
    THEN Counted(s, 0, "ERR value is not an integer")
    ELSE counter_write(s, key, Int64Of(s.store_[key]) + change)

\* KVStore::incrby, KVStore::decrby, KVStore::incr, KVStore::decr.
incrby(s, key, delta, t) ==
    counter_probed(check_and_remove_expired(s, key, t), key, delta)

decrby(s, key, delta, t) ==
    counter_probed(check_and_remove_expired(s, key, t), key, 0 - delta)

incr(s, key, t) == incrby(s, key, 1, t)

decr(s, key, t) == decrby(s, key, 1, t)

\* resp_integer64.
resp_integer64(value) == ":" \o ToString(value) \o CRLF

\* process_command, the reply to a counter command from the pair the store
\* returned.
counter_reply(c) ==
    IF c.err # "" THEN Result(c.s, resp_err(c.err), FALSE)
    ELSE Result(c.s, resp_integer64(c.val), FALSE)

\* process_command, INCR and DECR.
\* Mutant: the INCR replies the new value and does not store it.
process_command_INCR_lost(s, args, t) ==
    IF args = <<>> THEN Result(s, resp_err("ERR INCR requires a key"), FALSE)
    ELSE Result(s, counter_reply(incr(s, args[1], t)).reply, FALSE)

process_command_INCR(s, args, t) ==
    IF args = <<>> THEN Result(s, resp_err("ERR INCR requires a key"), FALSE)
    ELSE counter_reply(incr(s, args[1], t))

process_command_DECR(s, args, t) ==
    IF args = <<>> THEN Result(s, resp_err("ERR DECR requires a key"), FALSE)
    ELSE counter_reply(decr(s, args[1], t))

\* process_command, INCRBY and DECRBY, after std::stoll of the second
\* argument.
counter_by(s, delta, c) ==
    IF ~delta.ok THEN Result(s, resp_err("ERR value is not an integer"), FALSE)
    ELSE counter_reply(c)

process_command_INCRBY(s, args, t) ==
    IF Len(args) < 2
    THEN Result(s, resp_err("ERR INCRBY requires key and increment"), FALSE)
    ELSE counter_by(s, stoll(args[2]),
                    incrby(s, args[1], stoll(args[2]).val, t))

\* Mutant: DECRBY adds its argument.
process_command_DECRBY_adds(s, args, t) ==
    IF Len(args) < 2
    THEN Result(s, resp_err("ERR DECRBY requires key and decrement"), FALSE)
    ELSE counter_by(s, stoll(args[2]),
                    incrby(s, args[1], stoll(args[2]).val, t))

process_command_DECRBY(s, args, t) ==
    IF Len(args) < 2
    THEN Result(s, resp_err("ERR DECRBY requires key and decrement"), FALSE)
    ELSE counter_by(s, stoll(args[2]),
                    decrby(s, args[1], stoll(args[2]).val, t))

IncrCommand(args) ==
    /\ Handled([type |-> "INCR", args |-> args],
               process_command_INCR(kv, args, now))
    /\ UNCHANGED sessionVars

DecrCommand(args) ==
    /\ Handled([type |-> "DECR", args |-> args],
               process_command_DECR(kv, args, now))
    /\ UNCHANGED sessionVars

IncrByCommand(args) ==
    /\ Handled([type |-> "INCRBY", args |-> args],
               process_command_INCRBY(kv, args, now))
    /\ UNCHANGED sessionVars

DecrByCommand(args) ==
    /\ Handled([type |-> "DECRBY", args |-> args],
               process_command_DECRBY(kv, args, now))
    /\ UNCHANGED sessionVars

\* The connections of the model, and the channels they subscribe to.
Conns == {1, 2}
Channels == {"news"}

\* A connection before accept: a fresh ClientContext and parser.
NoConnection == [db_index |-> 0, subscribed_channels |-> {}]

\* KVStore::mutex_ of database d, as mutexes names it; databases_mutex and
\* channels_mutex are the globals of tcp_server.cpp, replicas_mutex_ is the
\* ReplicationManager's and m is the static mutex of Logger::log.
mutex_(d) == "mutex_[" \o ToString(d) \o "]"

\* The state after construction.  journal tells whether g_aof_logger and
\* g_replication_manager are set (start_server sets them, the unit tests
\* leave them null); dbs are the database indexes, replicas the replicas
\* already connected, iocp the listener main starts.
\* A connection's thread that is not inside a command handler.
Idle == [pc |-> "idle", cmd |-> [type |-> "UNKNOWN", args |-> <<>>],
         reply |-> ""]

Started(journal, dbs, replicas, iocp) ==
    /\ databases = [i \in dbs |-> EmptyStore]
    /\ now = StartTime
    /\ last_cmd = [type |-> "UNKNOWN", args |-> <<>>]
    /\ last_at = StartTime
    /\ last_removed = {}
    /\ reply = ""
    /\ db_index = 0
    /\ g_aof_logger = journal
    /\ command_queue_ = <<>>
    /\ aof_file = <<>>
    /\ rdb_file = NoFile
    /\ saved = NoSnapshot
    /\ g_replication_manager = journal
    /\ replicas_ = replicas
    /\ channels = [ch \in {} |-> {}]
    /\ ctx = [c \in Conns |-> NoConnection]
    /\ parser_buffer = [c \in Conns |-> ""]
    /\ wire = [c \in Conns |-> ""]
    /\ socket_state = [c \in Conns |-> "none"]
    /\ client_in = [c \in Conns |-> ""]
    /\ write_buffer = [c \in Conns |-> ""]
    /\ executed = [c \in Conns |-> <<>>]
    /\ use_iocp = iocp
    /\ operation = [c \in Conns |-> "OP_ACCEPT"]
    /\ client_sent = [c \in Conns |-> <<>>]
    /\ running_ = journal
    /\ writer = [pc |-> IF journal THEN "while" ELSE "none", cmd |-> ""]
    /\ stopper = [pc |-> "none", owed |-> <<>>]
    /\ queue_mutex_ = "free"
    /\ thread = [c \in Conns |-> Idle]
    /\ applied = <<>>
    /\ mutexes = [x \in {"databases_mutex", "channels_mutex",
                         "replicas_mutex_", "m"}
                        \cup {mutex_(d) : d \in dbs} |-> "free"]

Init == Started(FALSE, {0}, <<>>, FALSE)

InitAof == Started(TRUE, {0}, <<>>, FALSE)

\* The server main starts with the thread-per-connection listener.
InitTcp == Started(TRUE, 0..(NumDatabases - 1), <<>>, FALSE)

\* The server main starts with the completion-port listener.
InitIocp == Started(TRUE, 0..(NumDatabases - 1), <<>>, TRUE)

\* A server that journals, with one replica connected.
InitJournal ==
    Started(TRUE, {0}, <<[connected |-> TRUE, sent |-> <<>>]>>, FALSE)

Tick ==
    /\ now < StartTime + MaxTicks
    /\ now' = now + 1
    /\ UNCHANGED <<databases, db_index, last_cmd, last_at, last_removed, reply>>
    /\ UNCHANGED <<rdb_file, saved>>
    /\ UNCHANGED aofVars
    /\ UNCHANGED <<g_replication_manager, replicas_, netVars, threadVars>>

\* ------------------------------------------------------------ connections
\* What a command can change outside its session's position in the loop.
World ==
    [databases |-> databases, command_queue_ |-> command_queue_,
     replicas_ |-> replicas_, channels |-> channels, ctx |-> ctx,
     client_in |-> client_in]

\* send(socket, bytes) on a socket the server has not closed hands the bytes
\* to it; on a closed one it fails, and no caller looks at the result.
send(w, sock, bytes) ==
    IF socket_state[sock] \in {"open", "peer_closed"}
    THEN [w EXCEPT !.client_in[sock] = @ \o bytes]
    ELSE w

\* CommandResult of process_command, with the world it leaves.
Processed(w, r, quit) == [w |-> w, reply |-> r, should_quit |-> quit]

\* A store command of process_command: get_db(ctx), the handler, then the
\* journal and the replicas.
store_command(w, c, cmd, r) ==
    Processed([w EXCEPT
                 !.databases[w.ctx[c].db_index] = r.s,
                 !.command_queue_ = IF g_aof_logger /\ r.logged
                                    THEN append(@, cmd) ELSE @,
                 !.replicas_ = IF g_replication_manager /\ r.logged
                               THEN replicate_command(@, cmd, {}) ELSE @],
              r.reply, FALSE)

\* process_command, SELECT.
process_command_SELECT(w, c, args) ==
    IF args = <<>>
    THEN Processed(w, resp_err("SELECT requires database number"), FALSE)
    ELSE LET db_num == stoi(args[1])
         IN  IF ~db_num.ok
             THEN Processed(w, resp_err("Invalid database number"), FALSE)
             ELSE IF db_num.val >= 0 /\ db_num.val < NumDatabases
             THEN Processed([w EXCEPT !.ctx[c].db_index = db_num.val],
                            resp_simple("OK"), FALSE)
             ELSE Processed(w, resp_err("Database index out of range"), FALSE)

\* The loop of SUBSCRIBE over its channel arguments.
RECURSIVE subscribe_each(_, _, _)
subscribe_each(w, c, args) ==
    IF args = <<>> THEN w
    ELSE LET channel == Head(args)
             subs == IF channel \in DOMAIN w.channels
                     THEN w.channels[channel] ELSE {}
         IN  subscribe_each(
                 [w EXCEPT
                    !.channels = Put(w.channels, channel, subs \cup {c}),
                    !.ctx[c].subscribed_channels = @ \cup {channel}],
                 c, Tail(args))

\* process_command, SUBSCRIBE.
process_command_SUBSCRIBE(w, c, args) ==
    IF args = <<>>
    THEN Processed(w, resp_err("SUBSCRIBE requires channel name"), FALSE)
    ELSE Processed(subscribe_each(w, c, args), resp_simple("OK"), FALSE)

\* The loop of PUBLISH over the subscriber set, in the set's order.
RECURSIVE publish_each(_, _, _)
publish_each(w, subs, pub_msg) ==
    IF subs = {} THEN w
    ELSE LET sub_socket == CHOOSE x \in subs : \A y \in subs : x <= y
         IN  publish_each(send(w, sub_socket, pub_msg),
                          subs \ {sub_socket}, pub_msg)

\* Mutant: PUBLISH sends to every subscriber but the first of the set.
process_command_PUBLISH_skips(w, c, args) ==
    IF Len(args) < 2
    THEN Processed(w, resp_err("PUBLISH requires channel and message"), FALSE)
    ELSE LET subs == IF args[1] \in DOMAIN w.channels
                     THEN w.channels[args[1]] ELSE {}
             rest == {x \in subs : \E y \in subs : y < x}
         IN  Processed(publish_each(w, rest, resp_array(<<args[1], args[2]>>)),
                       resp_integer(Cardinality(subs)), FALSE)

\* process_command, PUBLISH.
process_command_PUBLISH(w, c, args) ==
    IF Len(args) < 2
    THEN Processed(w, resp_err("PUBLISH requires channel and message"), FALSE)
    ELSE LET subs == IF args[1] \in DOMAIN w.channels
                     THEN w.channels[args[1]] ELSE {}
         IN  Processed(publish_each(w, subs, resp_array(<<args[1], args[2]>>)),
                       resp_integer(Cardinality(subs)), FALSE)

\* process_command for the commands the clients of this model send.
process_command(w, c, cmd, t) ==
    LET s == w.databases[w.ctx[c].db_index]
    IN  CASE cmd.type = "PING" -> Processed(w, resp_simple("PONG"), FALSE)
          [] cmd.type = "ECHO" ->
                IF cmd.args = <<>>
                THEN Processed(w, resp_err("ECHO requires a message"), FALSE)
                ELSE Processed(w, resp_bulk(cmd.args[1]), FALSE)
          [] cmd.type = "SET" ->
                store_command(w, c, cmd, SetCommand_execute(s, cmd.args, t))
          [] cmd.type = "GET" ->
                store_command(w, c, cmd, process_command_GET(s, cmd.args, t))
          [] cmd.type = "DEL" ->
                store_command(w, c, cmd, DelCommand_execute(s, cmd.args, t))
          [] cmd.type = "QUIT" -> Processed(w, resp_simple("OK"), TRUE)
          [] cmd.type = "SELECT" -> process_command_SELECT(w, c, cmd.args)
          [] cmd.type = "SUBSCRIBE" -> process_command_SUBSCRIBE(w, c, cmd.args)
          [] cmd.type = "PUBLISH" -> process_command_PUBLISH(w, c, cmd.args)
          [] OTHER -> Processed(w, resp_err("Unknown command"), FALSE)

\* The loop over the frames of one read: each frame's command is run and its
\* reply handed on.  direct: the reply is sent to the socket at once
\* (handle_client); otherwise it is added to write_buffer (worker_thread).
\* replies are the replies of the frames handled so far.
RECURSIVE process_each(_, _, _, _, _, _, _)

\* One frame's reply is handed on, and the loop goes on unless it was QUIT's.
process_replied(w, c, commands, t, direct, out, replies, r, quit) ==
    IF quit
    THEN [w |-> IF direct THEN send(w, c, r) ELSE w,
          write_buffer |-> IF direct THEN out ELSE out \o r,
          replies |-> Append(replies, r), should_quit |-> TRUE]
    ELSE process_each(IF direct THEN send(w, c, r) ELSE w,
                      c, Tail(commands), t, direct,
                      IF direct THEN out ELSE out \o r,
                      Append(replies, r))

process_result(result, c, commands, t, direct, out, replies) ==
    process_replied(result.w, c, commands, t, direct, out, replies,
                    result.reply, result.should_quit)

process_frame(w, c, commands, t, direct, out, replies, cmd) ==
    IF cmd.type = "UNKNOWN" /\ Head(commands) # <<>>
    THEN process_replied(w, c, commands, t, direct, out, replies,
                         resp_err("ERR unknown command '"
                                  \o Head(commands)[1] \o "'"),
                         FALSE)
    ELSE process_result(process_command(w, c, cmd, t), c, commands, t, direct,
                        out, replies)

process_each(w, c, commands, t, direct, out, replies) ==
    IF commands = <<>>
    THEN [w |-> w, write_buffer |-> out, replies |-> replies,
          should_quit |-> FALSE]
    ELSE process_frame(w, c, commands, t, direct, out, replies,
                       command_from_resp_array(Head(commands)))

\* The cleanup of a session: its socket leaves every channel's set.
purge(chans, c) == [ch \in DOMAIN chans |-> chans[ch] \ {c}]

\* What the clients and the listeners leave alone.
storeOnly == <<db_index, now, last_cmd, last_at, last_removed, reply,
               g_aof_logger, aof_file, rdb_file, saved, g_replication_manager,
               use_iocp, threadVars>>

\* The world after a step of a connection.
Becomes(w) ==
    /\ databases' = w.databases
    /\ command_queue_' = w.command_queue_
    /\ replicas_' = w.replicas_
    /\ channels' = w.channels
    /\ ctx' = w.ctx
    /\ client_in' = w.client_in

\* A client connects: accept, a fresh ClientContext, and the first read.
Accept(c) ==
    /\ socket_state[c] = "none"
    /\ socket_state' = [socket_state EXCEPT ![c] = "open"]
    /\ operation' = [operation EXCEPT ![c] = "OP_READ"]
    /\ UNCHANGED <<databases, command_queue_, replicas_, channels, ctx,
                   client_in, parser_buffer, wire, write_buffer, executed,
                   client_sent>>
    /\ UNCHANGED storeOnly

\* A client writes bytes to its connection.
ClientSend(c, bytes) ==
    /\ socket_state[c] = "open"
    /\ Len(client_sent[c]) < MaxSends
    /\ wire' = [wire EXCEPT ![c] = @ \o bytes]
    /\ client_sent' = [client_sent EXCEPT ![c] = Append(@, bytes)]
    /\ UNCHANGED <<databases, command_queue_, replicas_, channels, ctx,
                   client_in, parser_buffer, socket_state, write_buffer,
                   executed, operation>>
    /\ UNCHANGED storeOnly

\* A client closes its end, or the connection breaks.
ClientClose(c) ==
    /\ socket_state[c] = "open"
    /\ socket_state' = [socket_state EXCEPT ![c] = "peer_closed"]
    /\ UNCHANGED <<databases, command_queue_, replicas_, channels, ctx,
                   client_in, parser_buffer, wire, write_buffer, executed,
                   operation, client_sent>>
    /\ UNCHANGED storeOnly

\* An exception leaves a thread of the server: the process ends, and with it
\* every connection and the channel registry.
Terminated ==
    /\ socket_state' = [c \in Conns |->
                          IF socket_state[c] = "none" THEN "none" ELSE "closed"]
    /\ operation' = [c \in Conns |->
                       IF socket_state[c] = "none" THEN operation[c] ELSE "done"]
    /\ channels' = EmptyMap
    /\ write_buffer' = [c \in Conns |-> ""]
    /\ UNCHANGED <<databases, command_queue_, replicas_, ctx, client_in>>

\* handle_client, one turn of its loop on a read of n bytes: the frames of
\* the parser's buffer are run and answered; after a QUIT the loop is left,
\* the socket purged from the channels and closed.
handle_client(c, n) ==
    /\ ~use_iocp
    /\ socket_state[c] \in {"open", "peer_closed"}
    /\ n \in 1..Len(wire[c])
    /\ LET parsed == extract_resp_commands(
                         RespParser_append(parser_buffer[c],
                                           SubSeq(wire[c], 1, n)), <<>>)
           error_reply == resp_err(parsed.error)
           done == process_each(World, c, parsed.commands, now, TRUE, "", <<>>)
       IN  /\ wire' = [wire EXCEPT ![c] = From(@, n + 1)]
           /\ parser_buffer' = [parser_buffer EXCEPT ![c] = parsed.buffer]
           /\ IF parsed.threw
              THEN /\ Terminated
                   /\ UNCHANGED executed
              ELSE IF parsed.commands = <<>> /\ parsed.error # ""
              THEN /\ Becomes(send(World, c, error_reply))
                   /\ executed' = [executed EXCEPT ![c] = Append(@, error_reply)]
                   /\ UNCHANGED <<socket_state, operation, write_buffer>>
              ELSE /\ Becomes(IF done.should_quit
                              THEN [done.w EXCEPT
                                      !.channels = purge(@, c)]
                              ELSE done.w)
                   /\ executed' = [executed EXCEPT ![c] = @ \o done.replies]
                   /\ socket_state' =
                          IF done.should_quit
                          THEN [socket_state EXCEPT ![c] = "closed"]
                          ELSE socket_state
                   /\ operation' =
                          IF done.should_quit
                          THEN [operation EXCEPT ![c] = "done"]
                          ELSE operation
                   /\ UNCHANGED write_buffer
    /\ UNCHANGED client_sent
    /\ UNCHANGED storeOnly

\* handle_client when recv returns no bytes (the client closed, or the
\* connection broke): the loop is left, the socket purged and closed.
handle_client_end(c) ==
    /\ ~use_iocp
    /\ socket_state[c] = "peer_closed"
    /\ channels' = purge(channels, c)
    /\ socket_state' = [socket_state EXCEPT ![c] = "closed"]
    /\ operation' = [operation EXCEPT ![c] = "done"]
    /\ UNCHANGED <<databases, command_queue_, replicas_, ctx, client_in,
                   parser_buffer, wire, write_buffer, executed, client_sent>>
    /\ UNCHANGED storeOnly

\* ------------------------------------------------- completion-port listener
\* Whether an overlapped call on connection c may fail at once: only when
\* the connection is broken.  failed is the outcome of the call in a step.
MayFail(c) == IF socket_state[c] = "peer_closed" THEN BOOLEAN ELSE {FALSE}

\* post_read: the next read is posted; when WSARecv fails the socket is
\* closed and the context deleted.
post_read(c, failed) ==
    /\ socket_state' = IF failed THEN [socket_state EXCEPT ![c] = "closed"]
                       ELSE socket_state
    /\ operation' = [operation EXCEPT ![c] = IF failed THEN "done"
                                             ELSE "OP_READ"]
    /\ write_buffer' = [write_buffer EXCEPT ![c] = ""]

\* post_write on the world w with out in write_buffer: nothing to write
\* posts a read; otherwise the buffer is handed to WSASend, and when that
\* fails the socket is closed and the context deleted.
post_write(w, c, out, failed) ==
    IF out = ""
    THEN /\ post_read(c, failed)
         /\ Becomes(w)
    ELSE /\ socket_state' = IF failed
                            THEN [socket_state EXCEPT ![c] = "closed"]
                            ELSE socket_state
         /\ operation' = [operation EXCEPT ![c] = IF failed THEN "done"
                                                  ELSE "OP_WRITE"]
         /\ write_buffer' = [write_buffer EXCEPT ![c] = ""]
         /\ Becomes(IF failed THEN w ELSE send(w, c, out))

\* worker_thread after a QUIT: the socket is closed with write_buffer
\* unsent; the worker then goes for the channels' lock.
quit_close(w, c) ==
    /\ socket_state' = [socket_state EXCEPT ![c] = "closed"]
    /\ operation' = [operation EXCEPT ![c] = "OP_PURGE"]
    /\ write_buffer' = [write_buffer EXCEPT ![c] = ""]
    /\ Becomes(w)

\* worker_thread, the frames of a completed read.
worker_thread_frames(c, parsed, done, failed) ==
    IF parsed.threw
    THEN /\ Terminated
         /\ UNCHANGED executed
    ELSE IF parsed.commands = <<>> /\ parsed.error # ""
    THEN /\ post_write(World, c, write_buffer[c] \o resp_err(parsed.error),
                       failed)
         /\ executed' = [executed EXCEPT
                           ![c] = Append(@, resp_err(parsed.error))]
    ELSE /\ IF done.should_quit THEN quit_close(done.w, c)
            ELSE post_write(done.w, c, done.write_buffer, failed)
         /\ executed' = [executed EXCEPT ![c] = @ \o done.replies]

\* worker_thread, a read of n bytes completes on connection c.
worker_thread_read(c, n) ==
    /\ use_iocp
    /\ operation[c] = "OP_READ"
    /\ socket_state[c] \in {"open", "peer_closed"}
    /\ n \in 1..Len(wire[c])
    /\ wire' = [wire EXCEPT ![c] = From(@, n + 1)]
    /\ \E failed \in MayFail(c) :
          LET parsed == extract_resp_commands(
                            RespParser_append(parser_buffer[c],
                                              SubSeq(wire[c], 1, n)), <<>>)
          IN  /\ parser_buffer' = [parser_buffer EXCEPT ![c] = parsed.buffer]
              /\ worker_thread_frames(
                     c, parsed,
                     process_each(World, c, parsed.commands, now, FALSE,
                                  write_buffer[c], <<>>),
                     failed)
    /\ UNCHANGED client_sent
    /\ UNCHANGED storeOnly

\* worker_thread, a write completes on connection c: the next read is posted.
worker_thread_write(c) ==
    /\ use_iocp
    /\ operation[c] = "OP_WRITE"
    /\ socket_state[c] \in {"open", "peer_closed"}
    /\ \E failed \in MayFail(c) : post_read(c, failed)
    /\ UNCHANGED <<databases, command_queue_, replicas_, channels, ctx,
                   client_in, parser_buffer, wire, executed, client_sent>>
    /\ UNCHANGED storeOnly

\* worker_thread, an operation of connection c completes with an error or
\* with no bytes: the socket is closed; the worker then goes for the
\* channels' lock.
worker_thread_closed(c) ==
    /\ use_iocp
    /\ operation[c] \in {"OP_READ", "OP_WRITE"}
    /\ socket_state[c] = "peer_closed"
    /\ socket_state' = [socket_state EXCEPT ![c] = "closed"]
    /\ operation' = [operation EXCEPT ![c] = "OP_PURGE"]
    /\ UNCHANGED <<databases, command_queue_, replicas_, channels, ctx,
                   client_in, parser_buffer, wire, write_buffer, executed,
                   client_sent>>
    /\ UNCHANGED storeOnly

\* worker_thread, with the channels' lock after closesocket: the socket
\* leaves every channel's set and the context is deleted.
worker_thread_purge(c) ==
    /\ use_iocp
    /\ operation[c] = "OP_PURGE"
    /\ channels' = purge(channels, c)
    /\ operation' = [operation EXCEPT ![c] = "done"]
    /\ UNCHANGED <<databases, command_queue_, replicas_, ctx, client_in,
                   parser_buffer, wire, socket_state, write_buffer, executed,
                   client_sent>>
    /\ UNCHANGED storeOnly

\* The command stream of one client on keys below the eviction threshold.
Next ==
    \/ Tick
    \/ \E args \in SetArgs(TypeKeys, Values) \cup {<<"k1">>} : SetCommand(args)
    \/ \E args \in KeyArgs(TypeKeys) : GetCommand(args)
    \/ \E args \in KeyArgs(TypeKeys) : ProcessGet(args)
    \/ \E args \in KeyArgs(TypeKeys) \cup {<<>>} : DelCommand(args)
    \/ \E args \in KeyArgs(TypeKeys) : ExistsCommand(args)
    \/ \E args \in ExpireArgs(TypeKeys, SecondsArgs) \cup {<<"k1", "x">>} :
          ExpireCommand(args)
    \/ \E args \in KeyArgs(TypeKeys) : TTLCommand(args)
    \/ \E args \in HSetArgs(TypeKeys) : HSetCommand(args)
    \/ \E args \in HGetArgs(TypeKeys, ProbeFields) : HGetCommand(args)

Spec == Init /\ [][Next]_vars

\* The command stream of a client that reads several keys at once.
NextMGet ==
    \/ Tick
    \/ \E args \in SetArgs(TypeKeys, Values) : SetCommand(args)
    \/ \E args \in KeyArgs(TypeKeys) : DelCommand(args)
    \/ \E args \in ExpireArgs(TypeKeys, {"1"}) : ExpireCommand(args)
    \/ \E args \in HSetArgs(TypeKeys) : HSetCommand(args)
    \/ \E args \in MGetArgs(TypeKeys) \cup {<<>>} : MGetCommand(args)
    \/ \E args \in MGetArgs(TypeKeys) \cup {<<>>} : ProcessMGet(args)

SpecMGet == Init /\ [][NextMGet]_vars

\* The command stream that crosses the eviction threshold: one more key than
\* MAX_KEYS, one value.  The clock stands still; EXPIRE k1 0 leaves k1 expired
\* and not yet purged, so that an expired key can be the one evicted.
NextLru ==
    \/ \E args \in SetArgs(Keys, {"a"}) : SetCommand(args)
    \/ \E args \in KeyArgs(Keys) : GetCommand(args)
    \/ \E args \in KeyArgs(Keys) : ProcessGet(args)
    \/ \E args \in KeyArgs(Keys) : DelCommand(args)
    \/ \E args \in ExpireArgs({"k1"}, {"0"}) : ExpireCommand(args)
    \/ \E args \in HSetArgs(Keys) : HSetCommand(args)
    \/ \E args \in HGetArgs(Keys, Fields) : HGetCommand(args)

SpecLru == Init /\ [][NextLru]_vars

\* The command stream that exercises the recency list: writes of one key
\* more than MAX_KEYS, reads, deletes, an expiration that has passed (the
\* clock stands still; EXPIRE k1 0 leaves k1 expired and not yet purged),
\* snapshots saved and loaded.
NextRecency ==
    \/ \E args \in SetArgs(Keys, {"a"}) : SetCommand(args)
    \/ \E args \in KeyArgs(Keys) : GetCommand(args)
    \/ \E args \in KeyArgs(Keys) : DelCommand(args)
    \/ \E args \in ExpireArgs({"k1"}, {"0"}) : ExpireCommand(args)
    \/ \E args \in HSetArgs({"k2"}) : HSetCommand(args)
    \/ SaveCommand(TRUE)
    \/ LoadCommand

SpecRecency == Init /\ [][NextRecency]_vars

\* The command stream that meets expired keys: writes with a time to live,
\* the clock, and every command that probes the keys it names.
NextExpiry ==
    \/ Tick
    \/ SetCommand(<<"k1", "a">>)
    \/ \E args \in HSetArgs({"k2"}) : HSetCommand(args)
    \/ \E args \in ExpireArgs(TypeKeys, {"1"}) : ExpireCommand(args)
    \/ GetCommand(<<"k1">>)
    \/ MGetCommand(<<"k1", "k2">>)
    \/ \E args \in HGetArgs({"k2"}, Fields) : HGetCommand(args)
    \/ \E args \in KeyArgs(TypeKeys) : ExistsCommand(args)
    \/ \E args \in KeyArgs(TypeKeys) : TTLCommand(args)
    \/ \E args \in KeyArgs(TypeKeys) : DelCommand(args)
    \/ \E args \in {<<"*">>, <<"k*">>} : KeysCommand(args)
    \/ SaveCommand(TRUE)

SpecExpiry == Init /\ [][NextExpiry]_vars

\* The command stream that loads snapshots which are missing, cut short or
\* foreign.
NextLoad ==
    \/ \E args \in SetArgs(TypeKeys, {"a"}) : SetCommand(args)
    \/ \E args \in HSetArgs({"k2"}) : HSetCommand(args)
    \/ \E args \in KeyArgs(TypeKeys) : DelCommand(args)
    \/ SaveCommand(TRUE)
    \/ SaveCommand_cut
    \/ ForeignFile
    \/ LoadCommand

SpecLoad == Init /\ [][NextLoad]_vars

\* The command stream of writes that are refused or have no effect, on a
\* server that journals and has one replica connected.
NextReject ==
    \/ Tick
    \/ \E args \in SetArgs({"k1"}, {"a"}) \cup {<<"k1">>} : SetCommand(args)
    \/ \E args \in HSetArgs(TypeKeys) \cup {<<"k2", "f">>} : HSetCommand(args)
    \/ \E args \in ExpireArgs(TypeKeys, {"1", "x", "1x"}) \cup {<<"k1">>} :
          ExpireCommand(args)
    \/ \E args \in KeyArgs(TypeKeys) \cup {<<>>} : DelCommand(args)

SpecReject == InitJournal /\ [][NextReject]_vars

\* ReplicationManager::add_replica when the connection succeeds: the new
\* endpoint is added to the list, connected (a failed connect adds nothing).
add_replica ==
    /\ g_replication_manager
    /\ Len(replicas_) < MaxReplicas
    /\ replicas_' = Append(replicas_, [connected |-> TRUE, sent |-> <<>>])
    /\ UNCHANGED <<databases, db_index, now, last_cmd, last_at, last_removed,
                   reply, rdb_file, saved, g_replication_manager>>
    /\ UNCHANGED aofVars
    /\ UNCHANGED <<netVars, threadVars>>

\* The command stream of writes on a server with replicas, which may be
\* added while it runs and whose sends may fail.
NextFanout ==
    \/ add_replica
    \/ \E args \in SetArgs({"k1"}, {"a", "b"}) : SetCommand(args)
    \/ \E args \in KeyArgs({"k1"}) : DelCommand(args)
    \/ \E args \in ExpireArgs({"k1"}, {"1"}) : ExpireCommand(args)
    \/ \E args \in HSetArgs({"k2"}) : HSetCommand(args)

SpecFanout == InitJournal /\ [][NextFanout]_vars

\* The command stream of a client that saves and loads snapshots.
NextRdb ==
    \/ Tick
    \/ \E args \in SetArgs(TypeKeys, {"a"}) : SetCommand(args)
    \/ \E args \in KeyArgs(TypeKeys) : DelCommand(args)
    \/ \E args \in ExpireArgs(TypeKeys, {"1"}) : ExpireCommand(args)
    \/ \E args \in HSetArgs(TypeKeys) : HSetCommand(args)
    \/ \E is_open \in BOOLEAN : SaveCommand(is_open)
    \/ LoadCommand

SpecRdb == Init /\ [][NextRdb]_vars

\* The write commands of a client of a server that journals, the writer
\* thread, and restarts of the server.
NextAof ==
    \/ Tick
    \/ \E args \in SetArgs(TypeKeys, {"a"}) : SetCommand(args)
    \/ \E args \in KeyArgs(TypeKeys) : DelCommand(args)
    \/ \E args \in ExpireArgs(TypeKeys, {"1"}) : ExpireCommand(args)
    \/ \E args \in HSetArgs(TypeKeys) : HSetCommand(args)
    \/ writer_thread_func
    \/ Restart

SpecAof == InitAof /\ [][NextAof]_vars

\* The commands of a client of a server that journals and replicates, and
\* the writer thread.
NextJournal ==
    \/ \E args \in SetArgs({"k1"}, {"a"}) \cup {<<"k1">>} : SetCommand(args)
    \/ \E args \in KeyArgs({"k1"}) : ProcessGet(args)
    \/ \E args \in KeyArgs({"k1"}) : DelCommand(args)
    \/ \E args \in KeyArgs({"k1"}) : ExistsCommand(args)
    \/ \E args \in ExpireArgs({"k1"}, {"1"}) : ExpireCommand(args)
    \/ \E args \in KeyArgs({"k1"}) : TTLCommand(args)
    \/ \E args \in HSetArgs({"k1"}) : HSetCommand(args)
    \/ \E args \in HGetArgs({"k1"}, Fields) : HGetCommand(args)
    \/ writer_thread_func

SpecJournal == InitJournal /\ [][NextJournal]_vars

\* The frame of a command as a client writes it.
Frame(words) == resp_array(words)

\* Clients that subscribe to a channel and publish on it, each write read
\* whole by the thread of its connection.
PubSubFrames ==
    {Frame(<<"SUBSCRIBE", "news">>), Frame(<<"PUBLISH", "news", "hi">>)}

NextPubSub ==
    \/ \E c \in Conns : Accept(c)
    \/ \E c \in Conns, bytes \in PubSubFrames : ClientSend(c, bytes)
    \/ \E c \in Conns : ClientClose(c)
    \/ \E c \in Conns : handle_client(c, Len(wire[c]))
    \/ \E c \in Conns : handle_client_end(c)

SpecPubSub == InitTcp /\ [][NextPubSub]_vars

\* Either listener, with clients that subscribe, publish, quit and close.
InitSessions == InitTcp \/ InitIocp

SessionFrames ==
    {Frame(<<"SUBSCRIBE", "news">>), Frame(<<"PUBLISH", "news", "hi">>),
     Frame(<<"QUIT">>)}

NextSessions ==
    \/ \E c \in Conns : Accept(c)
    \/ \E c \in Conns, bytes \in SessionFrames : ClientSend(c, bytes)
    \/ \E c \in Conns : ClientClose(c)
    \/ \E c \in Conns : handle_client(c, Len(wire[c]))
    \/ \E c \in Conns : handle_client_end(c)
    \/ \E c \in Conns : worker_thread_read(c, Len(wire[c]))
    \/ \E c \in Conns : worker_thread_write(c)
    \/ \E c \in Conns : worker_thread_closed(c)
    \/ \E c \in Conns : worker_thread_purge(c)

SpecSessions == InitSessions /\ [][NextSessions]_vars

\* Either listener, with clients that write one frame or two frames at a
\* time (pipelining), quit and close; each read takes all that has arrived.
PipelineWrites ==
    {Frame(<<"PING">>), Frame(<<"QUIT">>),
     Frame(<<"PING">>) \o Frame(<<"ECHO", "a">>),
     Frame(<<"PING">>) \o Frame(<<"QUIT">>)}

NextPipeline ==
    \/ \E c \in Conns : Accept(c)
    \/ \E c \in Conns, bytes \in PipelineWrites : ClientSend(c, bytes)
    \/ \E c \in Conns : ClientClose(c)
    \/ \E c \in Conns : handle_client(c, Len(wire[c]))
    \/ \E c \in Conns : handle_client_end(c)
    \/ \E c \in Conns : worker_thread_read(c, Len(wire[c]))
    \/ \E c \in Conns : worker_thread_write(c)
    \/ \E c \in Conns : worker_thread_closed(c)
    \/ \E c \in Conns : worker_thread_purge(c)

SpecPipeline == InitSessions /\ [][NextPipeline]_vars

\* One client of the thread-per-connection listener whose one write reaches
\* the server cut into chunks of any size: each recv returns some of the
\* bytes that have arrived.
ChunkedWrites ==
    {Frame(<<"PING">>), Frame(<<"ECHO", "a">>),
     Frame(<<"ECHO", "a">>) \o Frame(<<"PING">>)}

NextChunks ==
    \/ Accept(1)
    \/ \E bytes \in ChunkedWrites :
          /\ client_sent[1] = <<>>
          /\ ClientSend(1, bytes)
    \/ \E n \in 1..Len(wire[1]) : handle_client(1, n)
    \/ ClientClose(1)
    \/ handle_client_end(1)

SpecChunks == InitTcp /\ [][NextChunks]_vars

\* The journal file that a server finds when it starts: frames of SET, DEL
\* and EXPIRE, a frame with an unknown verb, a frame with too few arguments,
\* and frames that a write cut short (after the last '$', and after the
\* length line of the value).
JournalFrames ==
    {<<"SET", "k1", "a">>, <<"DEL", "k1">>, <<"SET", "k2", "b">>,
     <<"EXPIRE", "k2", "1">>}

UnknownVerb == Frame(<<"FOO", "k1">>)
WrongArity == Frame(<<"SET", "k1">>)
CutAtLength == "*3" \o CRLF \o "$3" \o CRLF \o "SET" \o CRLF \o "$2" \o CRLF
                   \o "k1" \o CRLF \o "$"
CutAtValue == CutAtLength \o "1" \o CRLF

JournalPieces ==
    {Frame(words) : words \in JournalFrames}
        \cup {UnknownVerb, WrongArity, CutAtLength, CutAtValue}

JournalFound(pieces) ==
    /\ g_aof_logger
    /\ aof_file = <<>>
    /\ last_cmd.type = "UNKNOWN"
    /\ aof_file' = pieces
    /\ UNCHANGED <<databases, db_index, now, last_cmd, last_at, last_removed,
                   reply, rdb_file, saved, g_aof_logger, command_queue_,
                   g_replication_manager, replicas_, netVars, threadVars>>

NextReplay ==
    \/ \E n \in 1..MaxJournal :
          \E pieces \in [1..n -> JournalPieces] : JournalFound(pieces)
    \/ Restart

SpecReplay == InitAof /\ [][NextReplay]_vars

\* One client of the thread-per-connection listener that writes one SET,
\* whose value may itself read as the frame of another SET; each recv
\* returns some of the bytes that have arrived.
PartialWrites ==
    {Frame(<<"SET", "k1", "a">>),
     Frame(<<"SET", "k1", Frame(<<"SET", "k2", "b">>)>>)}

NextPartial ==
    \/ Accept(1)
    \/ \E bytes \in PartialWrites :
          /\ client_sent[1] = <<>>
          /\ ClientSend(1, bytes)
    \/ \E n \in 1..Len(wire[1]) : handle_client(1, n)
    \/ ClientClose(1)
    \/ handle_client_end(1)

SpecPartial == InitTcp /\ [][NextPartial]_vars

\* One client of the thread-per-connection listener that writes valid frames
\* and bytes that are no frame; each read takes all that has arrived.
Garbage == {"x" \o CRLF, "*1" \o CRLF \o ":1" \o CRLF}

NextErrors ==
    \/ Accept(1)
    \/ \E bytes \in Garbage \cup {Frame(<<"PING">>)} : ClientSend(1, bytes)
    \/ handle_client(1, Len(wire[1]))
    \/ ClientClose(1)
    \/ handle_client_end(1)

SpecErrors == InitTcp /\ [][NextErrors]_vars

\* One client of the thread-per-connection listener that writes frames that
\* are malformed in each of the ways parse can meet: no '*', an element that
\* is no bulk string, an array count and a bulk length that are no decimal
\* integers.  Each read takes all that has arrived.
NoArray == "x" \o CRLF
NoBulk == "*1" \o CRLF \o ":1" \o CRLF
BadCount == "*x" \o CRLF
BadLength == "*1" \o CRLF \o "$x" \o CRLF
Malformed == {NoArray, NoBulk, BadCount, BadLength}

NextMalformed ==
    \/ Accept(1)
    \/ \E bytes \in Malformed \cup {Frame(<<"PING">>)} : ClientSend(1, bytes)
    \/ handle_client(1, Len(wire[1]))
    \/ ClientClose(1)
    \/ handle_client_end(1)

SpecMalformed == InitTcp /\ [][NextMalformed]_vars

\* Two clients of the thread-per-connection listener that select databases
\* and write and read a key; each read takes all that has arrived.
DbCommands ==
    {<<"SELECT", "1">>, <<"SELECT", ToString(NumDatabases)>>,
     <<"SELECT", "abc">>, <<"SELECT", "1x">>,
     <<"SET", "k1", "a">>, <<"GET", "k1">>}

NextDb ==
    \/ \E c \in Conns : Accept(c)
    \/ \E c \in Conns, words \in DbCommands : ClientSend(c, Frame(words))
    \/ \E c \in Conns : handle_client(c, Len(wire[c]))

SpecDb == InitTcp /\ [][NextDb]_vars

\* One client of the thread-per-connection listener, with the journal on,
\* that writes valid request frames once: verbs in upper and in lower case,
\* a nil bulk string, an empty array, several frames in one write.  The
\* server reads what arrived in chunks of any size.
CodecWords ==
    {<<>>, <<"PING">>, <<"ping">>, <<"SET", "k1", "a">>, <<"set", "k1", "a">>}

NilFrame == "*1" \o CRLF \o "$-1" \o CRLF

CodecFrames == {Frame(words) : words \in CodecWords} \cup {NilFrame}

CodecWrites ==
    {<<f>> : f \in CodecFrames}
    \cup {<<Frame(<<"SET", "k1", "a">>), Frame(<<"PING">>)>>,
          <<Frame(<<"set", "k1", "a">>), Frame(<<"SET", "k1", "a">>)>>}

NextCodec ==
    \/ Accept(1)
    \/ \E frames \in CodecWrites :
          /\ client_sent[1] = <<>>
          /\ ClientSend(1, Concat(frames))
    \/ \E n \in 1..Len(wire[1]) : handle_client(1, n)

SpecCodec == InitTcp /\ [][NextCodec]_vars

\* One client of the thread-per-connection listener that writes empty arrays
\* and PING and ECHO frames; each read takes all that has arrived.
EmptyArray == "*0" \o CRLF

EmptyWrites ==
    {<<EmptyArray>>, <<Frame(<<"PING">>)>>,
     <<EmptyArray, Frame(<<"PING">>)>>,
     <<Frame(<<"ECHO", "a">>), EmptyArray, Frame(<<"PING">>)>>}

NextEmpty ==
    \/ Accept(1)
    \/ \E frames \in EmptyWrites : ClientSend(1, Concat(frames))
    \/ handle_client(1, Len(wire[1]))
    \/ ClientClose(1)
    \/ handle_client_end(1)

SpecEmpty == InitTcp /\ [][NextEmpty]_vars

\* ------------------------------------------------------ concurrent handlers
\* The handlers as the connections' threads run them: each call into the
\* store, the journal or the replication manager holds that object's mutex
\* and is one step; between two calls of a handler the other threads run.
handlerOnly == <<db_index, now, last_cmd, last_at, last_removed, reply,
                 g_aof_logger, aof_file, rdb_file, saved,
                 g_replication_manager, channels, ctx, parser_buffer, wire,
                 socket_state, client_in, write_buffer, use_iocp, operation,
                 client_sent, running_, stopper, queue_mutex_, mutexes>>

\* queue_cv_.notify_one and notify_all: a writer blocked in the wait goes on
\* to take the mutex again; a writer that is not blocked notices nothing.
notify(w) == IF w.pc = "waiting" THEN [w EXCEPT !.pc = "lock"] ELSE w

At(c, pc) == thread[c].pc = pc

\* The thread of connection c is between two commands and takes the next.
MayStart(c) ==
    /\ At(c, "idle")
    /\ Len(applied) < MaxWrites
    /\ Len(executed[c]) < MaxWrites

\* SetCommand::execute up to the return of kv.set.
SetCommand_set(c, args) ==
    /\ MayStart(c)
    /\ databases' = [databases EXCEPT
                       ![0] = set(@, args[1], args[2], now).s]
    /\ applied' = Append(applied, [type |-> "SET", args |-> args])
    /\ thread' = [thread EXCEPT
                    ![c] = [pc |-> "append",
                            cmd |-> [type |-> "SET", args |-> args],
                            reply |-> resp_simple("OK")]]
    /\ UNCHANGED <<command_queue_, replicas_, executed, writer>>
    /\ UNCHANGED handlerOnly

\* HSetCommand::execute up to the return of kv.type: the WRONGTYPE reply, or
\* on to kv.hset.
HSetCommand_type(c, args) ==
    /\ MayStart(c)
    /\ databases' = [databases EXCEPT ![0] = type(@, args[1], now).s]
    /\ IF type(databases[0], args[1], now).ret = "String"
       THEN /\ executed' = [executed EXCEPT
                              ![c] = Append(@, resp_err(WRONGTYPE))]
            /\ UNCHANGED thread
       ELSE /\ thread' = [thread EXCEPT
                            ![c] = [pc |-> "hset",
                                    cmd |-> [type |-> "HSET", args |-> args],
                                    reply |-> ""]]
            /\ UNCHANGED executed
    /\ UNCHANGED <<command_queue_, replicas_, applied, writer>>
    /\ UNCHANGED handlerOnly

\* HSetCommand::execute, the call of kv.hset.
HSetCommand_hset(c) ==
    /\ At(c, "hset")
    /\ databases' =
           [databases EXCEPT
              ![0] = hset(@, thread[c].cmd.args[1], thread[c].cmd.args[2],
                          thread[c].cmd.args[3], now).s]
    /\ applied' = Append(applied, thread[c].cmd)
    /\ thread' =
           [thread EXCEPT
              ![c].pc = "append",
              ![c].reply =
                  resp_integer(hset(databases[0], thread[c].cmd.args[1],
                                    thread[c].cmd.args[2],
                                    thread[c].cmd.args[3], now).ret)]
    /\ UNCHANGED <<command_queue_, replicas_, executed, writer>>
    /\ UNCHANGED handlerOnly

\* A handler's call of g_aof_logger->append, under queue_mutex_.
Handler_append(c) ==
    /\ At(c, "append")
    /\ queue_mutex_ = "free"
    /\ command_queue_' = IF g_aof_logger
                         THEN append(command_queue_, thread[c].cmd)
                         ELSE command_queue_
    /\ writer' = IF g_aof_logger /\ append(command_queue_, thread[c].cmd)
                                     # command_queue_
                  THEN notify(writer) ELSE writer
    /\ thread' = [thread EXCEPT ![c].pc = "replicate"]
    /\ UNCHANGED <<databases, replicas_, executed, applied>>
    /\ UNCHANGED handlerOnly

\* A handler's call of replicate_command, and its return with the reply.
Handler_replicate(c) ==
    /\ At(c, "replicate")
    /\ replicas_' = IF g_replication_manager
                    THEN replicate_command(replicas_, thread[c].cmd, {})
                    ELSE replicas_
    /\ executed' = [executed EXCEPT ![c] = Append(@, thread[c].reply)]
    /\ thread' = [thread EXCEPT ![c] = Idle]
    /\ UNCHANGED <<databases, command_queue_, applied, writer>>
    /\ UNCHANGED handlerOnly

\* process_command, case INCR, on a connection's thread: the call of
\* kv.incr and the reply it makes of the result.
process_command_INCR_thread(c, args) ==
    /\ MayStart(c)
    /\ databases' = [databases EXCEPT
                       ![0] = process_command_INCR(@, args, now).s]
    /\ thread' = [thread EXCEPT
                    ![c] = [pc |-> "send",
                            cmd |-> [type |-> "INCR", args |-> args],
                            reply |-> process_command_INCR(
                                          databases[0], args, now).reply]]
    /\ applied' = Append(applied, [type |-> "INCR", args |-> args])
    /\ UNCHANGED <<command_queue_, replicas_, executed, writer>>
    /\ UNCHANGED handlerOnly

\* handle_client, the send of the reply that process_command returned.
handle_client_send(c) ==
    /\ At(c, "send")
    /\ executed' = [executed EXCEPT ![c] = Append(@, thread[c].reply)]
    /\ thread' = [thread EXCEPT ![c] = Idle]
    /\ UNCHANGED <<databases, command_queue_, replicas_, applied, writer>>
    /\ UNCHANGED handlerOnly

\* ------------------------------------------------- the journal's threads
\* AOFLogger::writer_thread_func and AOFLogger::stop statement by statement.
\* queue_mutex_ is held across steps only by the writer; append holds it for
\* the length of its push.
journalOnly == <<databases, db_index, now, last_cmd, last_at, last_removed,
                 reply, g_aof_logger, rdb_file, saved, g_replication_manager,
                 replicas_, netVars, thread, applied, mutexes>>

\* writer_thread_func, "while (running_)".
writer_thread_func_while ==
    /\ writer.pc = "while"
    /\ writer' = [writer EXCEPT !.pc = IF running_ THEN "lock" ELSE "exit"]
    /\ UNCHANGED <<running_, stopper, queue_mutex_, command_queue_, aof_file>>
    /\ UNCHANGED journalOnly

\* writer_thread_func, the lock is taken (at the top of the loop, or on
\* waking in the wait) and the wait's predicate evaluated.
writer_thread_func_lock ==
    /\ writer.pc = "lock"
    /\ queue_mutex_ = "free"
    /\ queue_mutex_' = "writer"
    /\ writer' = [writer EXCEPT
                    !.pc = IF command_queue_ # <<>> \/ ~running_
                           THEN "drain" ELSE "block"]
    /\ UNCHANGED <<running_, stopper, command_queue_, aof_file>>
    /\ UNCHANGED journalOnly

\* writer_thread_func, the predicate was false: the wait releases the mutex
\* and blocks.
writer_thread_func_block ==
    /\ writer.pc = "block"
    /\ queue_mutex_' = "free"
    /\ writer' = [writer EXCEPT !.pc = "waiting"]
    /\ UNCHANGED <<running_, stopper, command_queue_, aof_file>>
    /\ UNCHANGED journalOnly

\* A spurious wake-up of the wait, which the condition variable allows.
writer_thread_func_spurious ==
    /\ writer.pc = "waiting"
    /\ writer' = [writer EXCEPT !.pc = "lock"]
    /\ UNCHANGED <<running_, stopper, queue_mutex_, command_queue_, aof_file>>
    /\ UNCHANGED journalOnly

\* writer_thread_func, "while (!command_queue_.empty())" with the mutex
\* held: the front is popped and the mutex released, or the turn of the
\* outer loop ends.
writer_thread_func_drain ==
    /\ writer.pc = "drain"
    /\ queue_mutex_' = "free"
    /\ IF command_queue_ = <<>>
       THEN /\ writer' = [writer EXCEPT !.pc = "while"]
            /\ UNCHANGED command_queue_
       ELSE /\ writer' = [pc |-> "write", cmd |-> Head(command_queue_)]
            /\ command_queue_' = Tail(command_queue_)
    /\ UNCHANGED <<running_, stopper, aof_file>>
    /\ UNCHANGED journalOnly

\* writer_thread_func, the write to the file if it is open, and the lock
\* taken again.
writer_thread_func_write ==
    /\ writer.pc = "write"
    /\ queue_mutex_ = "free"
    /\ queue_mutex_' = "writer"
    /\ aof_file' = IF stopper.pc # "done" THEN Append(aof_file, writer.cmd)
                   ELSE aof_file
    /\ writer' = [pc |-> "drain", cmd |-> ""]
    /\ UNCHANGED <<running_, stopper, command_queue_>>
    /\ UNCHANGED journalOnly

\* AOFLogger::stop, "running_ = false".
stop_clear ==
    /\ stopper.pc = "none"
    /\ running_
    /\ running_' = FALSE
    /\ stopper' = [pc |-> "notify",
                   owed |-> aof_file
                            \o (IF writer.pc = "write" THEN <<writer.cmd>>
                                ELSE <<>>)
                            \o command_queue_]
    /\ UNCHANGED <<writer, queue_mutex_, command_queue_, aof_file>>
    /\ UNCHANGED journalOnly

\* AOFLogger::stop, "queue_cv_.notify_all()".
stop_notify ==
    /\ stopper.pc = "notify"
    /\ writer' = notify(writer)
    /\ stopper' = [stopper EXCEPT !.pc = "join"]
    /\ UNCHANGED <<running_, queue_mutex_, command_queue_, aof_file>>
    /\ UNCHANGED journalOnly

\* AOFLogger::stop, the join returns when the writer has left its function,
\* and the file is closed.
stop_join ==
    /\ stopper.pc = "join"
    /\ writer.pc = "exit"
    /\ stopper' = [stopper EXCEPT !.pc = "done"]
    /\ UNCHANGED <<running_, writer, queue_mutex_, command_queue_, aof_file>>
    /\ UNCHANGED journalOnly

\* One connection's thread that runs SET handlers while the journal's
\* writer runs and the journal is stopped.
WriterSteps ==
    \/ writer_thread_func_while
    \/ writer_thread_func_lock
    \/ writer_thread_func_block
    \/ writer_thread_func_drain
    \/ writer_thread_func_write

NextStop ==
    \/ \E v \in {"a", "b"} : SetCommand_set(1, <<"k1", v>>)
    \/ Handler_append(1)
    \/ Handler_replicate(1)
    \/ writer_thread_func_while
    \/ writer_thread_func_lock
    \/ writer_thread_func_block
    \/ writer_thread_func_spurious
    \/ writer_thread_func_drain
    \/ writer_thread_func_write
    \/ stop_clear
    \/ stop_notify
    \/ stop_join

SpecStop == InitAof /\ [][NextStop]_vars

\* The same under fair scheduling of the writer thread and of the thread
\* that called stop; a spurious wake-up may never come.
SpecStopFair ==
    /\ InitAof
    /\ [][NextStop]_vars
    /\ WF_vars(WriterSteps)
    /\ WF_vars(stop_notify \/ stop_join)

\* Two connections' threads that run SET and HSET handlers on one key.
NextConcurrent ==
    \/ \E c \in Conns, v \in {"a", "b"} : SetCommand_set(c, <<"k1", v>>)
    \/ \E c \in Conns : HSetCommand_type(c, <<"k1", "f", "w">>)
    \/ \E c \in Conns : HSetCommand_hset(c)
    \/ \E c \in Conns : Handler_append(c)
    \/ \E c \in Conns : Handler_replicate(c)
    \/ writer_thread_func

SpecConcurrent == InitAof /\ [][NextConcurrent]_vars

\* Two connections' threads that run INCR on one key, which a SET may have
\* given a value first.
CounterStarts == {"1", "3"}

NextIncr ==
    \/ \E c \in Conns, v \in CounterStarts :
          /\ applied = <<>>
          /\ SetCommand_set(c, <<"k1", v>>)
    \/ \E c \in Conns : Handler_append(c)
    \/ \E c \in Conns : Handler_replicate(c)
    \/ \E c \in Conns : process_command_INCR_thread(c, <<"k1">>)
    \/ \E c \in Conns : handle_client_send(c)

SpecIncr == InitAof /\ [][NextIncr]_vars

\* ------------------------------------------------------------ the mutexes
\* The handlers statement by statement where they take and release a
\* std::mutex.  A std::lock_guard takes its mutex where it is declared and
\* releases it at the end of its scope; a thread that finds the mutex held
\* stays at the declaration.

\* The thread of connection c, as the holder of a mutex.
Tid(c) == "client" \o ToString(c)

Holder(x) == IF x = "queue_mutex_" THEN queue_mutex_ ELSE mutexes[x]

\* InfoCommand::execute at the call of db.size() of database d.
size_pc(d) == "size[" \o ToString(d) \o "]"

\* The mutex whose lock_guard the thread of connection c stands at, or
\* "none".
Wants(c) ==
    LET pc == thread[c].pc
    IN  CASE pc \in {"get_db", "SELECT", "INFO"} -> "databases_mutex"
          [] pc = "set" -> mutex_(ctx[c].db_index)
          [] pc = "aof" -> "queue_mutex_"
          [] pc = "repl" -> "replicas_mutex_"
          [] pc = "log" -> "m"
          [] pc = "channels" -> "channels_mutex"
          [] \E d \in DOMAIN databases : pc = size_pc(d) ->
                mutex_(CHOOSE d \in DOMAIN databases : pc = size_pc(d))
          [] OTHER -> "none"

\* The mutexes with those of xs released.
Unlocked(xs) == [x \in DOMAIN mutexes |->
                    IF x \in xs THEN "free" ELSE mutexes[x]]

\* What no handler statement changes.
locksOnly == <<db_index, now, last_cmd, last_at, last_removed, reply,
               g_aof_logger, aof_file, rdb_file, saved,
               g_replication_manager, parser_buffer, wire, socket_state,
               write_buffer, executed, use_iocp, operation, client_sent,
               running_, stopper>>

\* handle_client calls process_command with the next command of the
\* connection; process_command goes to get_db.
process_command_call(c, cmd) ==
    /\ At(c, "idle")
    /\ cmd.type = "SET" => Len(applied) < MaxSets
    /\ thread' = [thread EXCEPT ![c] = [pc |-> "get_db", cmd |-> cmd,
                                        reply |-> ""]]
    /\ UNCHANGED <<databases, applied, command_queue_, writer, replicas_,
                   channels, ctx, client_in, mutexes, queue_mutex_>>
    /\ UNCHANGED locksOnly

\* std::lock_guard<std::mutex> lock(...): the mutex is free and the thread
\* takes it.
lock_guard(c) ==
    /\ Wants(c) # "none"
    /\ Holder(Wants(c)) = "free"
    /\ IF Wants(c) = "queue_mutex_"
       THEN /\ queue_mutex_' = Tid(c)
            /\ UNCHANGED mutexes
       ELSE /\ mutexes' = [mutexes EXCEPT ![Wants(c)] = Tid(c)]
            /\ UNCHANGED queue_mutex_
    /\ thread' = [thread EXCEPT ![c].pc = @ \o ".locked"]
    /\ UNCHANGED <<databases, applied, command_queue_, writer, replicas_,
                   channels, ctx, client_in>>
    /\ UNCHANGED locksOnly

\* get_db returns the connection's database and process_command enters the
\* case of the command.
get_db_return(c) ==
    /\ At(c, "get_db.locked")
    /\ mutexes' = Unlocked({"databases_mutex"})
    /\ thread' = [thread EXCEPT
                    ![c].pc = CASE thread[c].cmd.type = "SET" -> "set"
                                [] thread[c].cmd.type \in {"SUBSCRIBE",
                                                           "PUBLISH"} ->
                                      "channels"
                                [] OTHER -> thread[c].cmd.type]
    /\ UNCHANGED <<databases, applied, command_queue_, writer, replicas_,
                   channels, ctx, client_in, queue_mutex_>>
    /\ UNCHANGED locksOnly

\* Mutant: kv.set returns with the store's mutex still held, and the
\* handler goes on to read the database list.
set_return_holding(c) ==
    /\ At(c, "set.locked")
    /\ databases' =
           [databases EXCEPT
              ![ctx[c].db_index] = set(@, thread[c].cmd.args[1],
                                       thread[c].cmd.args[2], now).s]
    /\ applied' = Append(applied, thread[c].cmd)
    /\ thread' = [thread EXCEPT ![c].pc = "INFO"]
    /\ UNCHANGED <<command_queue_, writer, replicas_, channels, ctx,
                   client_in, queue_mutex_, mutexes>>
    /\ UNCHANGED locksOnly

\* KVStore::set under mutex_, and its return to the handler.
set_return(c) ==
    /\ At(c, "set.locked")
    /\ databases' =
           [databases EXCEPT
              ![ctx[c].db_index] = set(@, thread[c].cmd.args[1],
                                       thread[c].cmd.args[2], now).s]
    /\ applied' = Append(applied, thread[c].cmd)
    /\ mutexes' = Unlocked({mutex_(ctx[c].db_index)})
    /\ thread' = [thread EXCEPT
                    ![c] = IF g_aof_logger THEN [@ EXCEPT !.pc = "aof"]
                           ELSE IF g_replication_manager
                           THEN [@ EXCEPT !.pc = "repl"]
                           ELSE Idle]
    /\ UNCHANGED <<command_queue_, writer, replicas_, channels, ctx,
                   client_in, queue_mutex_>>
    /\ UNCHANGED locksOnly

\* AOFLogger::append under queue_mutex_: the push, the end of the guard's
\* scope and queue_cv_.notify_one().
append_return(c) ==
    /\ At(c, "aof.locked")
    /\ command_queue_' = append(command_queue_, thread[c].cmd)
    /\ writer' = IF append(command_queue_, thread[c].cmd) # command_queue_
                  THEN notify(writer) ELSE writer
    /\ queue_mutex_' = "free"
    /\ thread' = [thread EXCEPT
                    ![c] = IF g_replication_manager
                           THEN [@ EXCEPT !.pc = "repl"] ELSE Idle]
    /\ UNCHANGED <<databases, applied, replicas_, channels, ctx, client_in,
                   mutexes>>
    /\ UNCHANGED locksOnly

\* replicate_command under replicas_mutex_: the loop of sends, which fail on
\* the replicas of failed.  A failed send is logged with the mutex held.
replicate_command_send(c) ==
    /\ At(c, "repl.locked")
    /\ \E failed \in SUBSET {i \in 1..Len(replicas_) :
                               replicas_[i].connected} :
          /\ replicas_' = replicate_command(replicas_, thread[c].cmd, failed)
          /\ IF failed = {}
             THEN /\ mutexes' = Unlocked({"replicas_mutex_"})
                  /\ thread' = [thread EXCEPT ![c] = Idle]
             ELSE /\ thread' = [thread EXCEPT ![c].pc = "log"]
                  /\ UNCHANGED mutexes
    /\ UNCHANGED <<databases, applied, command_queue_, writer, channels,
                   ctx, client_in, queue_mutex_>>
    /\ UNCHANGED locksOnly

\* Logger::log under m returns, and replicate_command returns.
Logger_log_return(c) ==
    /\ At(c, "log.locked")
    /\ mutexes' = Unlocked({"m", "replicas_mutex_"})
    /\ thread' = [thread EXCEPT ![c] = Idle]
    /\ UNCHANGED <<databases, applied, command_queue_, writer, replicas_,
                   channels, ctx, client_in, queue_mutex_>>
    /\ UNCHANGED locksOnly

\* process_command, SELECT and PUBLISH: the body under the
\* guard's mutex and the end of its scope.
process_command_return(c) ==
    /\ \/ At(c, "SELECT.locked") /\ mutexes' = Unlocked({"databases_mutex"})
       \/ At(c, "channels.locked") /\ mutexes' = Unlocked({"channels_mutex"})
    /\ LET w == process_command(World, c, thread[c].cmd, now).w
       IN  /\ ctx' = w.ctx
           /\ channels' = w.channels
           /\ client_in' = w.client_in
    /\ thread' = [thread EXCEPT ![c] = Idle]
    /\ UNCHANGED <<databases, applied, command_queue_, writer, replicas_,
                   queue_mutex_>>
    /\ UNCHANGED locksOnly

\* InfoCommand::execute with databases_mutex held: the loop over the
\* databases reaches the first call of db.size().
InfoCommand_for(c) ==
    /\ At(c, "INFO.locked")
    /\ thread' = [thread EXCEPT ![c].pc = size_pc(0)]
    /\ UNCHANGED <<databases, applied, command_queue_, writer, replicas_,
                   channels, ctx, client_in, mutexes, queue_mutex_>>
    /\ UNCHANGED locksOnly

\* KVStore::size of database d returns under databases_mutex: the loop goes
\* to the next database, or the handler returns.
size_return(c, d) ==
    /\ At(c, size_pc(d) \o ".locked")
    /\ IF d + 1 \in DOMAIN databases
       THEN /\ mutexes' = Unlocked({mutex_(d)})
            /\ thread' = [thread EXCEPT ![c].pc = size_pc(d + 1)]
       ELSE /\ mutexes' = Unlocked({mutex_(d), "databases_mutex"})
            /\ thread' = [thread EXCEPT ![c] = Idle]
    /\ UNCHANGED <<databases, applied, command_queue_, writer, replicas_,
                   channels, ctx, client_in, queue_mutex_>>
    /\ UNCHANGED locksOnly

\* The commands of the connections' threads.
LockCommands ==
    {[type |-> "SET", args |-> <<"k1", "a">>],
     [type |-> "INFO", args |-> <<>>],
     [type |-> "SELECT", args |-> <<"1">>],
     [type |-> "PUBLISH", args |-> <<"news", "hi">>]}

\* A server with a replica: two connections' threads inside their handlers
\* while the journal's writer runs.
InitLocks ==
    Started(TRUE, 0..(NumDatabases - 1),
            <<[connected |-> TRUE, sent |-> <<>>]>>, FALSE)

NextLocks ==
    \/ \E c \in Conns, cmd \in LockCommands : process_command_call(c, cmd)
    \/ \E c \in Conns : lock_guard(c)
    \/ \E c \in Conns : get_db_return(c)
    \/ \E c \in Conns : set_return(c)
    \/ \E c \in Conns : append_return(c)
    \/ \E c \in Conns : replicate_command_send(c)
    \/ \E c \in Conns : Logger_log_return(c)
    \/ \E c \in Conns : process_command_return(c)
    \/ \E c \in Conns : InfoCommand_for(c)
    \/ \E c \in Conns, d \in DOMAIN databases : size_return(c, d)
    \/ writer_thread_func_while
    \/ writer_thread_func_lock
    \/ writer_thread_func_block
    \/ writer_thread_func_drain
    \/ writer_thread_func_write

SpecLocks == InitLocks /\ [][NextLocks]_vars

\* One client that sets a key to counters at the ends of the 64-bit range and
\* to text that is no integer, and counts on it.
CounterValues == {"abc", "1x", ToString(INT64_MAX), ToString(INT64_MIN)}
Deltas == {"1", "-1", ToString(INT64_MIN), "x"}

NextCounter ==
    \/ \E args \in SetArgs({"k1"}, CounterValues) : SetCommand(args)
    \/ \E args \in KeyArgs({"k1"}) : DelCommand(args)
    \/ \E args \in KeyArgs({"k1"}) \cup {<<>>} : IncrCommand(args)
    \/ \E args \in KeyArgs({"k1"}) \cup {<<>>} : DecrCommand(args)
    \/ \E args \in SetArgs({"k1"}, Deltas) \cup {<<"k1">>} : IncrByCommand(args)
    \/ \E args \in SetArgs({"k1"}, Deltas) \cup {<<"k1">>} : DecrByCommand(args)

SpecCounter == Init /\ [][NextCounter]_vars

\* ================================================================ claims
\* What a client can observe of key k in store s at clock t.
ExpiryDue(s, k, t) == k \in DOMAIN s.expirations_ /\ t >= s.expirations_[k]

LiveString(s, k, t) == k \in DOMAIN s.store_ /\ ~ExpiryDue(s, k, t)

LiveHash(s, k, t) == k \in DOMAIN s.hash_store_ /\ ~ExpiryDue(s, k, t)

Live(s, k, t) == LiveString(s, k, t) \/ LiveHash(s, k, t)

GetReply(k) == GetCommand_execute(kv, <<k>>, now).reply

ExistsReply(k) == ExistsCommand_execute(kv, <<k>>, now).reply

TTLReply(k) == TTLCommand_execute(kv, <<k>>, now).reply

\* The last command was a SET with both arguments (it replied +OK).
LastSet == last_cmd.type = "SET" /\ Len(last_cmd.args) >= 2

\* C1: after SET k v has replied +OK, and until k expires, GET k returns v
\* (from both GET handlers) and EXISTS k returns 1; k holds no Hash any more.
C1_SetThenGet ==
    LastSet =>
        LET k == last_cmd.args[1]
            v == last_cmd.args[2]
        IN  /\ reply = resp_simple("OK")
            /\ k \notin DOMAIN kv.hash_store_
            /\ ~ExpiryDue(kv, k, now) =>
                  /\ GetReply(k) = resp_bulk(v)
                  /\ process_command_GET(kv, <<k>>, now).reply = resp_bulk(v)
                  /\ ExistsReply(k) = resp_integer(1)

\* A SET has replied +OK, its key is still there and holds the value written.
C1_Witness ==
    /\ LastSet
    /\ reply = resp_simple("OK")
    /\ LiveString(kv, last_cmd.args[1], now)
    /\ kv.store_[last_cmd.args[1]] = last_cmd.args[2]

\* C2: SET clears the TTL of its key: after SET k v there is no expiration
\* entry for k, TTL k returns -1 and k stays present however long one waits.
C2_SetClearsTtl ==
    LastSet =>
        LET k == last_cmd.args[1]
        IN  /\ k \notin DOMAIN kv.expirations_
            /\ TTLReply(k) = resp_integer(-1)
            /\ ExistsReply(k) = resp_integer(1)

LastExpire ==
    /\ last_cmd.type = "EXPIRE"
    /\ Len(last_cmd.args) >= 2
    /\ reply = resp_integer(1)

\* The seconds of the last EXPIRE, read back from the argument sent.
LastSeconds == CHOOSE n \in 0..MaxSeconds : ToString(n) = last_cmd.args[2]

\* The clock seconds gone by since the last command.
Elapsed == now - last_at

MGetElement(k) ==
    IF LiveString(kv, k, now) THEN resp_bulk(kv.store_[k]) ELSE resp_nil

RECURSIVE MGetElements(_)
MGetElements(args) ==
    IF args = <<>> THEN ""
    ELSE MGetElement(Head(args)) \o MGetElements(Tail(args))

\* C6: MGET k1..kn replies an array of n elements in argument order: nil
\* for a missing key, nil for a Hash, the bulk string of the value for a
\* String, the empty string included.
C6_MGet ==
    (last_cmd.type = "MGET" /\ last_at = now) =>
        reply = "*" \o ToString(Len(last_cmd.args)) \o CRLF
                    \o MGetElements(last_cmd.args)

\* The reply is a bulk string (a read that hit), not nil and not an error.
IsBulk(r) == Len(r) > 0 /\ SubSeq(r, 1, 1) = "$" /\ r # resp_nil

\* The last element of a sequence, as a set (empty for the empty sequence).
TailOf(list) == IF list = <<>> THEN {} ELSE {list[Len(list)]}

\* What a completed write of key k leaves, given the store before it.
WriteBounded(k) ==
    LET others == RemoveKey(kv.lru_order_, k)
        evicted == Present(kv) \ Present(kv')
        needed == Cardinality(Present(kv) \cup {k}) > MAX_KEYS
    IN  /\ size(kv') <= MAX_KEYS
        /\ Cardinality({j \in Keys : Live(kv', j, now)}) <= MAX_KEYS
        /\ k \in Present(kv')
        /\ ExistsReply(k)' = resp_integer(1)
        /\ k \notin evicted
        /\ evicted = (IF needed THEN TailOf(others) ELSE {})
        /\ \A j \in evicted :
              /\ ExistsReply(j)' = resp_integer(0)
              /\ j \notin DOMAIN kv'.expirations_
              /\ j \notin kv'.lru_map_

\* C7: after every completed write (SET, or HSET that is not refused) the
\* database holds at most MAX_KEYS keys; a key is evicted only when the write
\* would exceed MAX_KEYS, it is the tail of the recency list (the least
\* recently used key) and never the key just written, which EXISTS reports
\* as present while the evicted key is reported absent.
C7_Eviction ==
    [][\A k \in Keys :
          /\ \A args \in SetArgs({k}, {"a"}) :
                (last_cmd'.type = "SET" /\ SetCommand(args)) => WriteBounded(k)
          /\ \A args \in HSetArgs({k}) :
                (last_cmd'.type = "HSET" /\ reply' # resp_err(WRONGTYPE)
                    /\ HSetCommand(args)) => WriteBounded(k)]_vars

\* A SET of a new key on a full database has evicted one other key.
C7_Witness ==
    /\ LastSet
    /\ Cardinality(last_removed) = 1
    /\ last_cmd.args[1] \notin last_removed
    /\ size(kv) = MAX_KEYS

\* After a read of k has hit: k is at the front of the recency list and, if
\* another key is in the list, no later write evicts k.
Promoted(k) ==
    /\ kv'.lru_order_ # <<>>
    /\ kv'.lru_order_[1] = k
    /\ Len(kv'.lru_order_) >= 2 =>
          \A t \in now..(StartTime + MaxTicks) :
             /\ \A args \in SetArgs(Keys, {"a"}) :
                   k \in Present(SetCommand_execute(kv', args, t).s)
             /\ \A args \in HSetArgs(Keys) :
                   k \in Present(HSetCommand_execute(kv', args, t).s)

\* C8: a GET or an HGET that hits a live key k moves k to the front of the
\* recency list, so that a later write that exceeds MAX_KEYS does not evict k
\* as long as another key is less recent.
C8_ReadsTouchRecency ==
    [][\A k \in Keys :
          /\ (last_cmd'.type = "GET" /\ IsBulk(reply')
                /\ (GetCommand(<<k>>) \/ ProcessGet(<<k>>))) => Promoted(k)
          /\ \A args \in HGetArgs({k}, Fields) :
                (last_cmd'.type = "HGET" /\ IsBulk(reply')
                    /\ HGetCommand(args)) => Promoted(k)]_vars

\* A GET has hit on a full database whose recency list it now heads.
C8_Witness ==
    /\ last_cmd.type = "GET"
    /\ IsBulk(reply)
    /\ last_at = now
    /\ size(kv) = MAX_KEYS
    /\ Len(kv.lru_order_) >= 2
    /\ kv.lru_order_[1] = last_cmd.args[1]

\* C9: SAVE followed by LOAD, over any contents, leaves exactly the keys that
\* were live at the SAVE, with the same type, value or hash fields and the
\* same expiration second; keys expired at the SAVE are absent.
C9_SnapshotRoundTrip ==
    (last_cmd.type = "LOAD" /\ reply = resp_simple("OK") /\ saved.taken) =>
        /\ kv.store_ = saved.store_
        /\ kv.hash_store_ = saved.hash_store_
        /\ kv.expirations_ = saved.expirations_

\* Stores a and b hold the same live keys with the same typed values at t.
Equivalent(a, b, t) ==
    \A k \in Keys :
        /\ LiveString(a, k, t) <=> LiveString(b, k, t)
        /\ LiveHash(a, k, t) <=> LiveHash(b, k, t)
        /\ LiveString(a, k, t) => a.store_[k] = b.store_[k]
        /\ LiveHash(a, k, t) => a.hash_store_[k] = b.hash_store_[k]

\* C10: when every journaled command has reached the journal file, a server
\* started on that file holds a keyspace equivalent to the one the write
\* commands (SET, DEL, EXPIRE, HSET) left in the server that wrote it.
C10_ReplayEquivalence ==
    [][(command_queue_ = <<>> /\ Restart) =>
           Equivalent(databases[0], databases'[0], now)]_vars

\* The command handled in this step is one the journal and the replicas
\* must get: a SET, a DEL that removed, an EXPIRE that was applied, an HSET.
MustPropagate ==
    \/ last_cmd'.type = "SET" /\ reply' = resp_simple("OK")
    \/ last_cmd'.type = "DEL" /\ reply' = resp_integer(1)
    \/ last_cmd'.type = "EXPIRE" /\ reply' = resp_integer(1)
    \/ last_cmd'.type = "HSET" /\ reply' \in {resp_integer(0), resp_integer(1)}

\* C11: a command handler adds one journal entry and sends the command to
\* every connected replica exactly when the command is a SET, a DEL that
\* removed a key, an EXPIRE that was applied or an HSET; any other command
\* leaves the journal queue and what the replicas were sent unchanged.
C11_Propagated ==
    [][(now' = now /\ aof_file' = aof_file) =>
         LET frame == resp_array(<<last_cmd'.type>> \o last_cmd'.args)
         IN  IF MustPropagate
             THEN /\ command_queue_' = Append(command_queue_, frame)
                  /\ \A i \in Connected(replicas_) :
                        \/ ~replicas_'[i].connected
                        \/ replicas_'[i].sent = Append(replicas_[i].sent, frame)
             ELSE /\ command_queue_' = command_queue_
                  /\ \A i \in DOMAIN replicas_ :
                        replicas_'[i].sent = replicas_[i].sent]_vars

\* The connections subscribed to channel ch: the sessions still running that
\* asked for it.
Subscribed(ch) ==
    {s \in Conns : /\ socket_state[s] \in {"open", "peer_closed"}
                   /\ ch \in ctx[s].subscribed_channels}

\* Connection c's thread reads exactly the frame bytes in this step, with
\* nothing left over from earlier reads.
ReadsOnly(c, bytes) ==
    /\ wire[c] = bytes
    /\ parser_buffer[c] = ""
    /\ wire'[c] = ""

SessionEnded(c) == operation[c] = "done"

\* The connections in the subscriber set of channel ch.
Registered(ch) == IF ch \in DOMAIN channels THEN channels[ch] ELSE {}

\* C13: under either listener, a connection whose session has ended is in
\* no channel's subscriber set, and a PUBLISH handled after a connection's
\* socket was closed finds no closed socket in the channel's set, so it
\* neither counts it nor sends to it.
C13_SessionEndPurges ==
    /\ [](\A c \in Conns : SessionEnded(c) =>
            \A ch \in DOMAIN channels : c \notin channels[ch])
    /\ [][\A c \in Conns :
            ReadsOnly(c, Frame(<<"PUBLISH", "news", "hi">>)) =>
              \A s \in Registered("news") : socket_state[s] # "closed"]_vars

\* The last frame connection c had executed was a QUIT (no other command of
\* SpecPipeline is answered +OK).
QuitHandled(c) ==
    /\ executed[c] # <<>>
    /\ executed[c][Len(executed[c])] = resp_simple("OK")

\* C15: under either listener, once a QUIT has been handled on a connection
\* the bytes handed to its socket are the replies of all the frames executed
\* on it, the +OK of the QUIT last: nothing is left unsent when the
\* connection is closed.
C15_QuitReplied ==
    \A c \in Conns : QuitHandled(c) => client_in[c] = Concat(executed[c])

\* The replies connection c is owed: those of the frames executed on it,
\* but for the +OK of a QUIT handled last.
Owed(c) ==
    IF QuitHandled(c) THEN SubSeq(executed[c], 1, Len(executed[c]) - 1)
    ELSE executed[c]

\* C14: under either listener, what has been handed to a connection's socket
\* is always the replies of the first k frames executed on it, whole and in
\* the order of the frames, for some k; and on a connection that is open, or
\* that the server closed after a QUIT, every frame executed before the QUIT
\* has had its reply handed to the socket, also when several frames came in
\* one read.
C14_RepliesInOrder ==
    \A c \in Conns :
        /\ \E k \in 0..Len(executed[c]) :
              client_in[c] = Concat(SubSeq(executed[c], 1, k))
        /\ (socket_state[c] = "open" \/ QuitHandled(c)) =>
              \E k \in Len(Owed(c))..Len(executed[c]) :
                 client_in[c] = Concat(SubSeq(executed[c], 1, k))

\* The replies to the frames of a byte stream that is parsed at once (the
\* replies of PING and ECHO do not depend on the state of the server).
RepliesOf(stream) ==
    process_each(World, 1, extract_resp_commands(stream, <<>>).commands, now,
                 FALSE, "", <<>>).replies

\* Every call of parse on this buffer and on what the frames before it leave
\* that answers 'needs more data' returns with the buffer as it found it.
RECURSIVE NeedsMoreUntouched(_)
NeedsMoreUntouched(buffer) ==
    LET result == RespParser_parse(buffer)
    IN  IF result.threw \/ result.error # "" THEN TRUE
        ELSE IF ~result.complete THEN result.buffer = buffer
        ELSE NeedsMoreUntouched(result.buffer)

\* C16: however the bytes of valid frames are cut into chunks, once all of
\* them have been appended and parsed chunk by chunk the frames returned
\* (seen by their replies) are those of the whole stream parsed at once; and
\* a call of parse that answers 'needs more data' leaves the buffer as it
\* was.
C16_Restartable ==
    /\ []((socket_state[1] = "open" /\ wire[1] = "") =>
            executed[1] = RepliesOf(Concat(client_sent[1])))
    /\ [][Len(wire'[1]) < Len(wire[1]) =>
            NeedsMoreUntouched(
                parser_buffer[1]
                \o SubSeq(wire[1], 1, Len(wire[1]) - Len(wire'[1])))]_vars

\* C17: a client wrote bytes that are no frame and then a valid PING, and
\* the server has read all of it: the connection is still open, the server
\* answered the garbage with an error reply and then the PING with +PONG.
C17_ErrorRecovers ==
    (/\ Len(client_sent[1]) = 2
     /\ client_sent[1][1] \in Garbage
     /\ client_sent[1][2] = Frame(<<"PING">>)
     /\ socket_state[1] = "open"
     /\ wire[1] = "")
    => /\ Len(executed[1]) = 2
       /\ Char(executed[1][1], 1) = "-"
       /\ executed[1][2] = resp_simple("PONG")

\* The string is a decimal number: digits only, after an optional sign.
RECURSIVE AllDigits(_)
AllDigits(str) ==
    str = "" \/ (Char(str, 1) \in Digits /\ AllDigits(From(str, 2)))

IsNumber(str) ==
    IF str # "" /\ Char(str, 1) \in {"+", "-"}
    THEN Len(str) > 1 /\ AllDigits(From(str, 2))
    ELSE str # "" /\ AllDigits(str)

\* What the claim asks of the step in which connection c's command words is
\* handled in database i, the index of c's session.
DbStep(c, words, i) ==
    /\ \A o \in Conns \ {c} : ctx'[o].db_index = ctx[o].db_index
    /\ \A j \in DOMAIN databases : j # i => databases'[j] = databases[j]
    /\ IF words[1] = "SELECT"
       THEN /\ databases' = databases
            /\ IF /\ IsNumber(words[2])
                  /\ stoi(words[2]).val \in 0..(NumDatabases - 1)
               THEN /\ ctx'[c].db_index = stoi(words[2]).val
                    /\ client_in'[c] = client_in[c] \o resp_simple("OK")
               ELSE /\ ctx'[c].db_index = i
                    /\ Char(executed'[c][Len(executed'[c])], 1) = "-"
       ELSE /\ ctx'[c].db_index = i
            /\ databases'[i] =
                  process_command(World, c,
                                  [type |-> words[1], args |-> Tail(words)],
                                  now).w.databases[i]

\* C18: a session starts in database 0; a store command acts on the
\* database of its session's index and leaves the other databases and all
\* indexes as they were; SELECT n changes the index of its own session only,
\* to n when n is a number within range, and otherwise replies an error and
\* leaves the index unchanged.
C18_DatabaseIsolation ==
    /\ [](\A c \in Conns : socket_state[c] = "none" => ctx[c].db_index = 0)
    /\ [][\A c \in Conns, words \in DbCommands :
            ReadsOnly(c, Frame(words)) =>
               DbStep(c, words, ctx[c].db_index)]_vars

\* ---- C19
CounterTypes == {"INCR", "DECR", "INCRBY", "DECRBY"}

\* The text of -d for the decimal text d.
Negated(d) ==
    IF d # "" /\ Char(d, 1) = "-" THEN SubSeq(d, 2, Len(d)) ELSE "-" \o d

\* The counter command of the step is well formed: a key, and for INCRBY
\* and DECRBY the decimal text of a signed 64-bit integer.
CounterCommand ==
    /\ last_cmd'.type \in CounterTypes
    /\ IF last_cmd'.type \in {"INCR", "DECR"} THEN Len(last_cmd'.args) = 1
       ELSE Len(last_cmd'.args) = 2 /\ last_cmd'.args[2] \in Int64Texts

\* What the counter command of the step adds to the key.
CounterChange ==
    CASE last_cmd'.type = "INCR" -> 1
      [] last_cmd'.type = "DECR" -> 0 - 1
      [] last_cmd'.type = "INCRBY" -> Int64Of(last_cmd'.args[2])
      [] last_cmd'.type = "DECRBY" -> 0 - Int64Of(last_cmd'.args[2])

\* The text the key of the step's command held, "0" when it was absent.
CounterPrior ==
    IF last_cmd'.args[1] \in DOMAIN kv.store_
    THEN kv.store_[last_cmd'.args[1]] ELSE "0"

\* The step returned the new value and stored its decimal text.
CounterStored(new) ==
    /\ reply' = ":" \o ToString(new) \o CRLF
    /\ last_cmd'.args[1] \in DOMAIN kv'.store_
    /\ kv'.store_[last_cmd'.args[1]] = ToString(new)

\* The step replied an error and left the store as it was.
CounterRefused ==
    /\ Char(reply', 1) = "-"
    /\ kv' = kv

\* The step of DECRBY k d replied and left the store as INCRBY k (-d) does.
AsIncrByNegated ==
    /\ reply' = process_command_INCRBY(
                    kv, <<last_cmd'.args[1], Negated(last_cmd'.args[2])>>,
                    now).reply
    /\ kv' = process_command_INCRBY(
                 kv, <<last_cmd'.args[1], Negated(last_cmd'.args[2])>>,
                 now).s

\* The counter semantics of a step; with width, a new value outside the
\* signed 64-bit integers is refused and DECRBY k d is compared with
\* INCRBY k (-d) only when -d is a signed 64-bit integer.
CounterStep(width) ==
    CounterCommand =>
        /\ IF CounterPrior \notin Int64Texts THEN CounterRefused
           ELSE IF width /\ Int64Of(CounterPrior) + CounterChange
                                \notin INT64_MIN..INT64_MAX
           THEN CounterRefused
           ELSE CounterStored(Int64Of(CounterPrior) + CounterChange)
        /\ (/\ last_cmd'.type = "DECRBY"
            /\ width => Negated(last_cmd'.args[2]) \in Int64Texts)
           => AsIncrByNegated

\* C19 as stated: for INCR, DECR, INCRBY d and DECRBY d on key k, an absent
\* k counts from 0, a k that holds the decimal text of a signed 64-bit
\* integer n gets the new value (n+1, n-1, n+d, n-d) returned and stored as
\* its decimal text, a k that holds a non-integer string gets an error and is
\* unchanged, and DECRBY k d replies and leaves the store as INCRBY k (-d).
C19_CountersUnbounded == [][CounterStep(FALSE)]_vars

\* C19, amended: the same, where the new value is returned and stored when
\* it is itself a signed 64-bit integer and otherwise the reply is an error
\* and k is unchanged, and DECRBY k d is as INCRBY k (-d) whenever -d is a
\* signed 64-bit integer.
C19_Counters == [][CounterStep(TRUE)]_vars

\* A DECRBY k1 -1 on a key that held 1 replied 2 and stored "2".
C19_Witness ==
    /\ last_cmd = [type |-> "DECRBY", args |-> <<"k1", "-1">>]
    /\ reply = ":2" \o CRLF
    /\ "k1" \in DOMAIN kv.store_
    /\ kv.store_["k1"] = "2"


\* ---- C20
\* The frame is the encoding of an array of bulk strings whose first element
\* has no lower-case letter (so it has no nil element either).
Canonical(f) ==
    \E words \in CodecWords :
       /\ f = resp_array(words)
       /\ words = <<>> \/ words[1] = ToUpper(words[1])

\* The call of parse took exactly the frame f from the front of the buffer.
Consumed(f, before, after) == before = f \o after

\* What the claim asks of one call of parse that found the buffer before and
\* returned result; canon restricts the round trip to canonical frames.
CodecCall(before, result, canon) ==
    /\ result.complete <=>
          \E f \in CodecFrames : Consumed(f, before, result.buffer)
    /\ \A f \in CodecFrames :
          (/\ result.complete
           /\ Consumed(f, before, result.buffer)
           /\ canon => Canonical(f))
          => resp_array(result.command) = f

\* The calls of parse that extract_resp_commands makes on a buffer.
RECURSIVE CodecCalls(_, _)
CodecNext(before, result, canon) ==
    IF result.complete /\ result.error = "" /\ ~result.threw
    THEN CodecCalls(result.buffer, canon) ELSE TRUE

CodecCalls(buffer, canon) ==
    /\ CodecCall(buffer, RespParser_parse(buffer), canon)
    /\ CodecNext(buffer, RespParser_parse(buffer), canon)

\* The frames of the client's write that are SET commands, in order.
SetFrames == {Frame(<<"SET", "k1", "a">>), Frame(<<"set", "k1", "a">>)}

IsSetFrame(f) == f \in SetFrames

\* The frames the client wrote.
SentFrames ==
    IF client_sent[1] = <<>> THEN <<>>
    ELSE CHOOSE frames \in CodecWrites : Concat(frames) = client_sent[1][1]

SentSets == SelectSeq(SentFrames, IsSetFrame)

\* The entries of the journal queue are, in order, SET frames the client
\* sent, with the bytes of those frames.
Journaled(canon) ==
    /\ Len(command_queue_) <= Len(SentSets)
    /\ \A i \in 1..Len(command_queue_) :
          (canon => Canonical(SentSets[i]))
          => command_queue_[i] = SentSets[i]

\* The buffer the parser is given in a step that reads from the connection.
ReadBuffer ==
    parser_buffer[1] \o SubSeq(wire[1], 1, Len(wire[1]) - Len(wire'[1]))

\* The buffer holds valid request frames: what the client wrote from the
\* start of one of its frames on, possibly cut short.
IsPrefix(a, b) == Len(a) <= Len(b) /\ SubSeq(b, 1, Len(a)) = a

HoldsFrames(buffer) ==
    \E frames \in CodecWrites :
       /\ Concat(frames) = client_sent[1][1]
       /\ \E k \in 0..Len(frames) :
             IsPrefix(buffer, From(client_sent[1][1],
                                   Len(Concat(SubSeq(frames, 1, k))) + 1))

\* A step that reads from the connection into a buffer of valid frames.
ReadsFrames ==
    /\ Len(wire'[1]) < Len(wire[1])
    /\ HoldsFrames(ReadBuffer)

\* C20 as stated: for any valid request frame, the decoded elements encoded
\* again as an array of bulk strings are the bytes of the frame, so that a
\* journaled command has the bytes the client sent; and a call of parse
\* reports complete exactly when it took one frame from the buffer.
C20_CodecIdempotent ==
    /\ [][ReadsFrames => CodecCalls(ReadBuffer, FALSE)]_vars
    /\ []Journaled(FALSE)

\* C20, amended: the same for the valid request frames whose first element
\* has no lower-case letter and that have no nil element.
C20_CodecCanonical ==
    /\ [][ReadsFrames => CodecCalls(ReadBuffer, TRUE)]_vars
    /\ []Journaled(TRUE)

\* The client sent SET k1 a as one frame, the server has read it, and the
\* journal queue holds that frame.
C20_Witness ==
    /\ client_sent[1] = <<Frame(<<"SET", "k1", "a">>)>>
    /\ wire[1] = ""
    /\ executed[1] = <<resp_simple("OK")>>
    /\ command_queue_ = <<Frame(<<"SET", "k1", "a">>)>>


\* ---- C21
IsCommandFrame(f) == f # EmptyArray

\* The frames of a write other than the empty arrays, as one byte stream.
RECURSIVE CommandBytes(_)
CommandBytes(writes) ==
    IF writes = <<>> THEN ""
    ELSE Concat(SelectSeq(CHOOSE frames \in EmptyWrites :
                              Concat(frames) = Head(writes),
                          IsCommandFrame))
         \o CommandBytes(Tail(writes))

\* C21: an array frame with count 0 is parsed as a complete frame with no
\* error and an empty command, is consumed from the buffer and is ignored
\* by the dispatcher; the frames after it in the same buffer are parsed.
\* So, once the server has read all that a client wrote, it has replied to
\* the other frames as if the empty arrays had not been sent, and nothing
\* is left in the parser's buffer.
C21_EmptyArrayIgnored ==
    (socket_state[1] = "open" /\ wire[1] = "" /\ client_sent[1] # <<>>) =>
        /\ executed[1] = RepliesOf(CommandBytes(client_sent[1]))
        /\ client_in[1] = Concat(executed[1])
        /\ parser_buffer[1] = ""


\* ---- C22
AllIdle == \A c \in Conns : At(c, "idle")

IsSet(cmd) == cmd.type = "SET"

\* The journal: what the writer has written and what is still queued.
Journal == aof_file \o command_queue_

\* C22: when the connections' threads have returned from their handlers,
\* the journal holds the SETs in the order in which the store applied them;
\* so the last journal entry for a key carries the value the store holds.
C22_JournalOrder ==
    AllIdle =>
        Journal = [i \in 1..Len(SelectSeq(applied, IsSet)) |->
                      command_to_resp(SelectSeq(applied, IsSet)[i])]

\* ---- C23
\* C23: no step of an HSET handler that writes the hash finds a String
\* under its key: an HSET never replies an integer after destroying a
\* String that a SET had stored before the hash write.
C23_HSetKeepsString ==
    [][\A c \in Conns :
          (At(c, "hset") /\ thread'[c].pc = "append")
          => thread[c].cmd.args[1] \notin DOMAIN databases[0].store_]_vars


\* ---- C24
IsIncr(cmd) == cmd.type = "INCR"

\* The integer the counter started from: what the SET gave it, or 0.
CounterStart ==
    IF applied # <<>> /\ Head(applied).type = "SET"
    THEN Int64Of(Head(applied).args[2]) ELSE 0

\* The number of INCR commands the store has applied.
Incrs == Len(SelectSeq(applied, IsIncr))

IsIntegerReply(r) == Char(r, 1) = ":"

\* The replies to the INCR commands that have been sent.
IncrReplies(c) == SelectSeq(executed[c], IsIntegerReply)

C25_StopDrains ==
    stopper.pc = "done" => IsPrefix(stopper.owed, aof_file)

\* ---- C26
\* C26: once stop has cleared running_, the writer thread leaves its
\* function and the join in stop returns.
C26_StopTerminates ==
    (stopper.pc = "notify") ~> (stopper.pc = "done")


\* ---- C27
\* The keys that hold a value in store s.
StoredKeys(s) == DOMAIN s.store_ \cup DOMAIN s.hash_store_

\* C27: between operations, the recency list of every database holds
\* exactly the keys that hold a String or a Hash, each once, and the side
\* index holds exactly those keys.
C27_RecencyList ==
    \A i \in DOMAIN databases :
        /\ {databases[i].lru_order_[n] :
               n \in 1..Len(databases[i].lru_order_)} = StoredKeys(databases[i])
        /\ Len(databases[i].lru_order_) = Cardinality(StoredKeys(databases[i]))
        /\ databases[i].lru_map_ = StoredKeys(databases[i])

\* A snapshot of two keys has been loaded into a store that held another.
C27_Witness ==
    /\ last_cmd.type = "LOAD"
    /\ reply = resp_simple("OK")
    /\ Len(kv.lru_order_) = MAX_KEYS
    /\ last_removed # {}


\* The last command was a write that the store applied to the key it names.
WriteApplied ==
    \/ last_cmd.type = "SET" /\ reply = resp_simple("OK")
    \/ last_cmd.type = "HSET" /\ reply \in {resp_integer(0), resp_integer(1)}
    \/ last_cmd.type = "EXPIRE" /\ reply = resp_integer(1)
    \/ last_cmd.type \in CounterTypes /\ IsIntegerReply(reply)

\* C28: immediately after a successful write to a key (SET, HSET, an
\* applied EXPIRE, a counter write) the key is at the front of the recency
\* list of its database: it is the most-recently-used key.
C28_WriteMovesToFront ==
    WriteApplied =>
        /\ kv.lru_order_ # <<>>
        /\ kv.lru_order_[1] = last_cmd.args[1]


\* The keys of store s whose expiration second has come at clock t.
ExpiredKeys(s, t) == {k \in DOMAIN s.expirations_ : s.expirations_[k] <= t}

\* Store s without the keys of K: no value, no expiration, no recency node.
RECURSIVE Unlisted(_, _)
Unlisted(order, K) ==
    IF order = <<>> THEN <<>>
    ELSE (IF Head(order) \in K THEN <<>> ELSE <<Head(order)>>)
         \o Unlisted(Tail(order), K)

Gone(s, K) ==
    [store_       |-> [k \in DOMAIN s.store_ \ K |-> s.store_[k]],
     hash_store_  |-> [k \in DOMAIN s.hash_store_ \ K |-> s.hash_store_[k]],
     expirations_ |-> [k \in DOMAIN s.expirations_ \ K |-> s.expirations_[k]],
     lru_order_   |-> Unlisted(s.lru_order_, K),
     lru_map_     |-> s.lru_map_ \ K]

\* Every place of store s where a key can be held.
Held(s) ==
    DOMAIN s.store_ \cup DOMAIN s.hash_store_ \cup DOMAIN s.expirations_
        \cup s.lru_map_ \cup {s.lru_order_[n] : n \in 1..Len(s.lru_order_)}

\* The commands that probe the keys they name, and the keys a command names
\* (SAVE and KEYS * name every key; a KEYS that is refused names none).
ProbeTypes ==
    {"GET", "MGET", "HGET", "EXISTS", "TTL", "EXPIRE", "DEL", "KEYS", "SAVE"}

NamedKeys(cmd) ==
    IF cmd.type = "SAVE" \/ cmd = [type |-> "KEYS", args |-> <<"*">>]
    THEN TypeKeys
    ELSE IF cmd.type = "KEYS" THEN {}
    ELSE IF cmd.type = "MGET" THEN {cmd.args[n] : n \in 1..Len(cmd.args)}
    ELSE IF cmd.args = <<>> THEN {}
    ELSE {cmd.args[1]}

\* What command cmd can answer and leave behind on store s at clock t.
Outcomes(cmd, s, t) ==
    LET purged == purge_expired(s, keys_to_check(s), t)
        one(r) == {[s |-> r.s, reply |-> r.reply]}
    IN  CASE cmd.type = "GET" -> one(GetCommand_execute(s, cmd.args, t))
          [] cmd.type = "MGET" -> one(MGetCommand_execute(s, cmd.args, t))
          [] cmd.type = "HGET" -> one(HGetCommand_execute(s, cmd.args, t))
          [] cmd.type = "EXISTS" -> one(ExistsCommand_execute(s, cmd.args, t))
          [] cmd.type = "TTL" -> one(TTLCommand_execute(s, cmd.args, t))
          [] cmd.type = "EXPIRE" -> one(ExpireCommand_execute(s, cmd.args, t))
          [] cmd.type = "DEL" -> one(DelCommand_execute(s, cmd.args, t))
          [] cmd.type = "KEYS" ->
               {[s |-> r.s, reply |-> r.reply] :
                  r \in {KeysCommand_execute(s, cmd.args, t, strings, hashes) :
                           strings \in Orderings(DOMAIN purged.store_),
                           hashes \in Orderings(DOMAIN purged.hash_store_)}}
          [] cmd.type = "SAVE" -> {[s |-> purged, reply |-> resp_simple("OK")]}

\* C29: an expired key is never observable.  When a command that probes its
\* keys (GET, MGET, HGET, EXISTS, TTL, EXPIRE, DEL, KEYS, SAVE) names keys
\* whose expiration second is <= now, its reply and the store it leaves are
\* those of the same command on the store without these keys, the snapshot
\* it writes does not hold them, and afterwards they have no value, no
\* expiration entry and no recency node.
C29_ExpiredUnobservable ==
    [][(now' = now /\ last_cmd'.type \in ProbeTypes) =>
          LET K == NamedKeys(last_cmd') \cap ExpiredKeys(kv, now)
              wrote == last_cmd'.type = "SAVE" /\ K # {}
          IN  /\ [s |-> databases'[db_index], reply |-> reply']
                     \in Outcomes(last_cmd', Gone(kv, K), now)
              /\ K \cap Held(databases'[db_index]) = {}
              /\ wrote => /\ rdb_file'.exists
                          /\ \A n \in 1..Len(rdb_file'.content) :
                                rdb_file'.content[n] \notin K
       ]_vars

\* An expired key was met: KEYS purged k1 and listed only k2.
C29_Witness ==
    /\ last_cmd = [type |-> "KEYS", args |-> <<"*">>]
    /\ last_removed = {"k1"}
    /\ reply = resp_array(<<"k2">>)
    /\ "k1" \notin Held(kv)


\* The expiry field of key k in the snapshot last saved: 0 when it has none.
SavedExpiry(k) ==
    IF k \in DOMAIN saved.expirations_ THEN saved.expirations_[k] ELSE 0

\* C30: snapshot load drops expired entries.  After a LOAD that succeeded,
\* an entry of the snapshot whose expiry is non-zero and <= the time of
\* loading is not in the database, and an entry whose expiry is 0 is in the
\* database without an expiration.
C30_LoadDropsExpired ==
    (last_cmd.type = "LOAD" /\ reply = resp_simple("OK") /\ saved.taken) =>
        \A k \in DOMAIN saved.store_ \cup DOMAIN saved.hash_store_ :
            /\ (SavedExpiry(k) # 0 /\ SavedExpiry(k) <= last_at)
                  => k \notin Present(kv)
            /\ SavedExpiry(k) = 0
                  => k \in Present(kv) /\ k \notin DOMAIN kv.expirations_


\* C31: a failed LOAD is all-or-nothing.  Whenever LOAD replies
\* 'ERR Load failed' the current database (values, expirations, recency
\* list and index) is exactly what it was before the command.
C31_FailedLoadKeepsStore ==
    [][(last_cmd'.type = "LOAD" /\ reply' = resp_err("ERR Load failed"))
          => databases'[db_index] = databases[db_index]]_vars


\* Command cmd is a write that store s at clock t refuses or that has no
\* effect: too few arguments, HSET of a key that holds a String, EXPIRE with
\* seconds that are not an integer, DEL or EXPIRE of a key that is not live.
Refused(cmd, s, t) ==
    \/ cmd.type = "SET" /\ Len(cmd.args) < 2
    \/ cmd.type = "HSET"
         /\ (Len(cmd.args) < 3
               \/ cmd.args[1] \in DOMAIN s.store_ \cap LiveKeys(s, t))
    \/ cmd.type = "EXPIRE"
         /\ (Len(cmd.args) < 2 \/ ~IsNumber(cmd.args[2])
               \/ cmd.args[1] \notin LiveKeys(s, t))
    \/ cmd.type = "DEL"
         /\ (cmd.args = <<>> \/ cmd.args[1] \notin LiveKeys(s, t))

\* C32: a rejected or ineffective write leaves the store unchanged (but for
\* the purge of the key it names when that key has expired), adds no
\* journal entry and sends nothing to any replica.
C32_RefusedWrite ==
    [][(now' = now /\ Refused(last_cmd', kv, now)) =>
          /\ databases'[db_index]
                \in {kv, Gone(kv, NamedKeys(last_cmd') \cap ExpiredKeys(kv, now))}
          /\ command_queue_' = command_queue_
          /\ aof_file' = aof_file
          /\ replicas_' = replicas_
       ]_vars


\* The frames of all that connection 1's client wrote, framed from the start
\* of its byte stream.
StreamCommands == extract_resp_commands(Concat(client_sent[1]), <<>>).commands

\* The databases after the first j of these frames were executed on a
\* server that has just started.
DatabasesAfter(j) ==
    process_each([World EXCEPT
                    !.databases = [i \in DOMAIN databases |-> EmptyStore]],
                 1, SubSeq(StreamCommands, 1, j), now, FALSE, "", <<>>
                ).w.databases

\* C33: a partial command never reaches the store.  What the databases
\* hold is always what the execution of the first frames of the
\* connection's byte stream leaves: no command was executed that is not a
\* frame of the stream framed from its start, such as the bytes of a bulk
\* payload that arrive in a later read.
C33_WholeFramesOnly ==
    databases \in {DatabasesAfter(j) : j \in 0..Len(StreamCommands)}


\* The protocol errors that answer a malformed frame.
ProtocolErrors ==
    {resp_err("ERR expected array"), resp_err("ERR expected bulk string"),
     resp_err("ERR invalid array length")}

ErrorsFor(bytes) ==
    IF bytes = NoArray THEN {resp_err("ERR expected array")}
    ELSE IF bytes = NoBulk THEN {resp_err("ERR expected bulk string")}
    ELSE ProtocolErrors

\* C34: a malformed frame is reported as a value, never as a crash.  A read
\* never ends the connection (no client of this specification sends QUIT),
\* and the read of a malformed frame into an empty parser is answered with
\* the protocol error of its kind.
C34_MalformedReported ==
    [][Len(wire'[1]) < Len(wire[1]) =>
          /\ socket_state'[1] = socket_state[1]
          /\ (parser_buffer[1] = "" /\ wire[1] \in Malformed) =>
                /\ Len(executed'[1]) = Len(executed[1]) + 1
                /\ executed'[1][Len(executed'[1])] \in ErrorsFor(wire[1])
       ]_vars


\* The step is a write that was applied, which is journaled and replicated:
\* SET, a DEL that removed the key, an EXPIRE that was applied, HSET.
JournaledWrite ==
    /\ now' = now
    /\ Len(replicas_') = Len(replicas_)
    /\ \/ last_cmd'.type = "SET" /\ reply' = resp_simple("OK")
       \/ last_cmd'.type = "DEL" /\ reply' = resp_integer(1)
       \/ last_cmd'.type = "EXPIRE" /\ reply' = resp_integer(1)
       \/ last_cmd'.type = "HSET"
            /\ reply' \in {resp_integer(0), resp_integer(1)}

IsSuffix(a, b) ==
    Len(a) <= Len(b) /\ SubSeq(b, Len(b) - Len(a) + 1, Len(b)) = a

\* C35: replication fan-out.  Every journaled write is sent in wire form to
\* each replica that is connected at that moment (a replica whose send fails
\* is disconnected instead), and of any two replicas that are connected one
\* has received exactly the commands the other received since it was added,
\* in the same order.
C35_FanOut ==
    /\ [][JournaledWrite =>
            \A i \in Connected(replicas_) :
               \/ ~replicas_'[i].connected
               \/ replicas_'[i].sent =
                     Append(replicas_[i].sent,
                            Frame(<<last_cmd'.type>> \o last_cmd'.args))
         ]_vars
    /\ [](\A i, j \in Connected(replicas_) :
             \/ IsSuffix(replicas_[i].sent, replicas_[j].sent)
             \/ IsSuffix(replicas_[j].sent, replicas_[i].sent))


\* The step is a write that replicate_command sends: an applied SET, DEL or
\* EXPIRE.
ReplicatedWrite == JournaledWrite /\ last_cmd'.type # "HSET"

\* What the handler of the step's command answers and leaves in the store,
\* whatever happens to the replicas.
HandlerResult ==
    CASE last_cmd'.type = "SET" -> SetCommand_execute(kv, last_cmd'.args, now)
      [] last_cmd'.type = "DEL" -> DelCommand_execute(kv, last_cmd'.args, now)
      [] last_cmd'.type = "EXPIRE" ->
            ExpireCommand_execute(kv, last_cmd'.args, now)

\* C36: replica failure handling.  A replica that is disconnected stays so
\* and is never sent anything again; in the step of a replicated write every
\* connected replica either receives the command or, its send having
\* failed, is disconnected and receives nothing, so that the others still
\* receive the current and the later commands; the reply and the store are
\* those of the command's handler, failure or not.
C36_ReplicaFailure ==
    /\ [][Len(replicas_') = Len(replicas_) =>
            \A i \in DOMAIN replicas_ :
               ~replicas_[i].connected => replicas_'[i] = replicas_[i]]_vars
    /\ [][ReplicatedWrite =>
            /\ \A i \in Connected(replicas_) :
                  \/ /\ ~replicas_'[i].connected
                     /\ replicas_'[i].sent = replicas_[i].sent
                  \/ /\ replicas_'[i].connected
                     /\ replicas_'[i].sent =
                           Append(replicas_[i].sent,
                                  Frame(<<last_cmd'.type>> \o last_cmd'.args))
            /\ databases'[db_index] = HandlerResult.s
            /\ reply' = HandlerResult.reply
         ]_vars

\* The send of the first command to the first of two replicas failed; the
\* second replica received that command and the next one.
C36_Witness ==
    /\ Len(replicas_) = 2
    /\ ~replicas_[1].connected /\ replicas_[1].sent = <<>>
    /\ replicas_[2].connected /\ Len(replicas_[2].sent) = 2
    /\ last_cmd.type = "SET" /\ reply = resp_simple("OK")


\* The store after the well-formed SET, DEL and EXPIRE frames among the
\* pieces of a journal file were applied in file order at clock t; every
\* other piece is skipped.
RECURSIVE Replayed(_, _, _)
Replayed(s, pieces, t) ==
    IF pieces = <<>> THEN s
    ELSE IF \A words \in JournalFrames : Frame(words) # Head(pieces)
    THEN Replayed(s, Tail(pieces), t)
    ELSE LET words == CHOOSE w \in JournalFrames : Frame(w) = Head(pieces)
             after ==
                CASE words[1] = "SET" -> set(s, words[2], words[3], t).s
                  [] words[1] = "DEL" -> del(s, words[2], t).s
                  [] words[1] = "EXPIRE" ->
                        expire(s, words[2], stoi(words[3]).val, t).s
         IN  Replayed(after, Tail(pieces), t)

\* C37: replay of the journal is robust and terminates.  Whatever the
\* journal file holds, the server that starts on it comes up, and database 0
\* is what the well-formed SET, DEL and EXPIRE frames of the file leave when
\* applied in file order: unknown verbs, frames with the wrong arity and
\* frames cut short are skipped.
C37_ReplayRobust ==
    last_cmd.type \in {"RESTART", "TERMINATE"} =>
        /\ last_cmd.type = "RESTART"
        /\ databases[0] = Replayed(EmptyStore, aof_file, last_at)

\* ------------------------------------------------------------------- C38
\* The threads of the server, what each holds and what each waits for.
Threads == {Tid(c) : c \in Conns} \cup {"writer"}

AllMutexes == DOMAIN mutexes \cup {"queue_mutex_"}

HeldBy(t) == {x \in AllMutexes : Holder(x) = t}

\* The mutex thread t stands at, or "none".
Requests(t) ==
    IF t = "writer"
    THEN IF writer.pc \in {"lock", "write"} THEN "queue_mutex_" ELSE "none"
    ELSE Wants(CHOOSE c \in Conns : Tid(c) = t)

\* The thread that holds what t waits for, or "none".
WaitsFor(t) ==
    IF Requests(t) = "none" \/ Holder(Requests(t)) = "free" THEN "none"
    ELSE Holder(Requests(t))

RECURSIVE Reaches(_, _, _)
Reaches(t, u, n) ==
    /\ n > 0
    /\ WaitsFor(t) # "none"
    /\ \/ WaitsFor(t) = u
       \/ Reaches(WaitsFor(t), u, n - 1)

PerDatabase == {mutex_(d) : d \in DOMAIN databases}

\* C38: the mutexes the claim names are nested in one direction only, the
\* database list's mutex and then one database's: a thread that stands at the
\* database list's mutex holds none of them, a thread that stands at a
\* database's mutex holds at most the database list's, and a thread that
\* stands at the journal's, the channels' or the replicas' mutex holds none
\* of them.  No set of threads waits in a cycle, each for a mutex the next
\* holds.
C38_NoDeadlock ==
    /\ \A t \in Threads :
          LET held == HeldBy(t) \ {"m"}
          IN  /\ Requests(t) \in PerDatabase => held \subseteq {"databases_mutex"}
              /\ Requests(t) \in AllMutexes \ (PerDatabase \cup {"m"}) =>
                     held = {}
    /\ \A t \in Threads : ~Reaches(t, t, Cardinality(Threads))

\* An INFO handler holds the database list's mutex and waits for the mutex
\* of a database that a SET handler holds, while the writer holds the
\* journal's.
C38_Witness ==
    \E c \in Conns :
       /\ thread[c].cmd.type = "INFO"
       /\ "databases_mutex" \in HeldBy(Tid(c))
       /\ Requests(Tid(c)) \in PerDatabase
       /\ WaitsFor(Tid(c)) \in Threads \ {Tid(c)}
       /\ queue_mutex_ = "writer"

\* ------------------------------------------------------------------- C39
\* C39: in every database no key is in the String map and in the Hash map
\* at the same time.
C39_TypeExclusive ==
    \A d \in DOMAIN databases :
       DOMAIN databases[d].store_ \cap DOMAIN databases[d].hash_store_ = {}

\* A SET has just written a String to a key that the last snapshot holds as
\* a Hash, in a store that holds another key as well.
C39_Witness ==
    /\ last_cmd.type = "SET"
    /\ Len(last_cmd.args) = 2
    /\ last_cmd.args[1] \in DOMAIN saved.hash_store_
    /\ last_cmd.args[1] \in DOMAIN kv.store_
    /\ size(kv) > 1

\* ------------------------------------------------------------------- C40
\* C40: in every database every key of the expiration table has a String or
\* a Hash value and a node in the recency list.
C40_NoDanglingExpiration ==
    \A d \in DOMAIN databases :
       \A key \in DOMAIN databases[d].expirations_ :
          /\ key \in DOMAIN databases[d].store_
                     \cup DOMAIN databases[d].hash_store_
          /\ key \in databases[d].lru_map_
          /\ \E i \in 1..Len(databases[d].lru_order_) :
                databases[d].lru_order_[i] = key

\* A DEL has found its key expired: the probe removed the key with its
\* expiration and the command counted nothing, while another key is held.
C40_Witness ==
    /\ last_cmd.type = "DEL"
    /\ reply = resp_integer(0)
    /\ last_removed # {}
    /\ last_removed \cap DOMAIN kv.expirations_ = {}
    /\ size(kv) > 0

====
